---- MODULE Spec2Model ----
(***************************************************************************)
(* Py4Lexis: the chunked resumable uploader (py4lexis/ddi/uploader.py) and *)
(* the token-aware request handling of the session                         *)
(* (py4lexis/session.py) with the resolve loop of its callers              *)
(* (py4lexis/ddi/datasets.py).                                             *)
(*                                                                         *)
(* The remote servers are the environment: every response (status code,    *)
(* headers, body) is drawn from a small set, with no assumption that the   *)
(* server follows its protocol.                                            *)
(***************************************************************************)
EXTENDS Integers, Sequences, FiniteSets, TLC

(***************************************************************************)
(* Bounds of the model.                                                    *)
(***************************************************************************)
MaxFile == 2
MaxChunk == 2
MaxOff == 3
MaxRetries == 2
MaxChunks == 2
MaxSends == 3

\* Python's None
None == 0 - 1
\* a network fault of the HTTP library (requests.exceptions.RequestException)
NetErr == 0 - 2

VARIABLES
    \* ---- Uploader (py4lexis/ddi/uploader.py) ----
    upc,          \* position of the uploader's control
    file_size,    \* size of the local file
    chunk_size,   \* Uploader.chunk_size
    retries,      \* Uploader.retries
    url,          \* Uploader.url: None, or 1 for the stored resource url
    offset,       \* Uploader.offset
    stop_at,      \* Uploader.stop_at
    retried,      \* Uploader._retried
    request,      \* Uploader.request: the last TusRequest and its response
    raised,       \* the exception that left upload(), if any
    \* ---- observation of the uploader's calls ----
    nCreate,      \* create_url calls issued
    createResp,   \* what the create response carried
    nChunks,      \* upload_chunk calls started
    txInChunk,    \* chunk transmissions issued by the current upload_chunk
    nTx,          \* chunk transmissions issued in total
    okPrev,       \* offset recorded after the successful transmission before the last
    okLast,       \* offset recorded after the last successful transmission
    lastQuery,    \* value of the last successful get_offset, None before
    requeried,    \* a get_offset succeeded since the last failed transmission
    qFailInChunk, \* get_offset calls of the current upload_chunk that failed
    fresh,        \* offset was assigned from a server response since the last transmission
    \* ---- LexisSession (py4lexis/session.py) ----
    TOKEN,              \* LexisSession.TOKEN: the number of the access token
    REFRESH_TOKEN,      \* LexisSession.REFRESH_TOKEN
    API_HEADER,         \* LexisSession.API_HEADER
    exception_on_error, \* LexisSession.exception_on_error
    \* ---- a resolve loop of a caller (py4lexis/ddi/datasets.py) ----
    spc,            \* position of the caller's control
    to_json,        \* the to_json argument of the call site
    status_solved,  \* the loop's locals
    is_error,
    content,
    reqAuth,        \* Authorization header of the request in flight
    outcome,        \* how the call ended: its return value or its exception
    \* ---- observation of the session's calls ----
    nSent,          \* requests issued by the loop
    nRefresh,       \* refresh_token calls
    lastResp        \* the last response handled and the reply to its refresh

upCfg == <<file_size, chunk_size, retries>>
upVars == <<upc, upCfg, url, offset, stop_at, retried, request, raised>>
upObs == <<nCreate, createResp, nChunks, txInChunk, nTx, okPrev, okLast,
           lastQuery, requeried, qFailInChunk, fresh>>
upAll == <<upVars, upObs>>
seVars == <<TOKEN, REFRESH_TOKEN, API_HEADER, exception_on_error>>
loVars == <<spc, to_json, status_solved, is_error, content, reqAuth, outcome>>
seObs == <<nSent, nRefresh, lastResp>>
seAll == <<seVars, loVars, seObs>>

VARIABLES
    \* ---- Datasets.download_dataset (py4lexis/ddi/datasets.py) ----
    dpc,            \* position of download_dataset's control
    suppress_print, \* Datasets.suppress_print
    down_request,   \* down_request: None, or 1 for the identifier received
    d_retries,      \* the local retries of download_dataset
    d_is_error,     \* the local is_error of download_dataset
    d_sends,        \* requests sent by the resolve loop that is running
    d_faults,       \* unsolved passes and failed poll-loop refreshes so far
    d_out,          \* how download_dataset ended
    d_log,          \* the error download_dataset itself logged last
    f_opened,       \* the destination file was opened for writing
    nWrites,        \* write calls on the destination file
    nProgress,      \* calls of the progress callback
    \* ---- observation of download_dataset's calls ----
    nSubmit,        \* _ddi_submit_download calls
    submitted,      \* what the submit call ended with
    nPolls,         \* _ddi_get_download_status calls
    nPending,       \* status calls that reported a state that is not terminal
    lastState,      \* what the last status call ended with
    nFetch,         \* _ddi_download_dataset calls
    fetched,        \* what the fetch call ended with
    nPollRefresh,   \* refresh_token calls of the poll loop
    sinceRefresh,   \* status calls started since the last of them (all, before the first)
    lastRefresh     \* the result of the last of them

VARIABLES
    \* ---- AsyncUploader (py4lexis/ddi/uploader.py) ----
    au              \* the state of an AsyncUploader given the same responses

VARIABLES
    \* ---- DirectoryTree (py4lexis/directory_tree.py) ----
    tpc,            \* where the listing of a dataset is: init, iter, done
    tree_content,   \* the root directory made of the response
    tree_items,     \* the generator: all it yields, in order
    yielded,        \* the nodes taken from it so far
    lacking,        \* the keys the descriptors of the response lack
    printed,        \* the line of each node taken
    rows            \* the table row, or none, of each node taken

trAll == <<tpc, tree_content, tree_items, yielded, lacking, printed, rows>>

VARIABLES
    \* ---- AirflowCLI.get_workflow_states (py4lexis/cli/airflow.py) ----
    apc,                        \* init, table, shown, nothing
    workflow_runs,              \* the runs the server reports
    filter_by_workflow_run_id,  \* the arguments of the call
    filter_by_workflow_state,
    workflows_table             \* the table, in the end as it is printed

afAll == <<apc, workflow_runs, filter_by_workflow_run_id,
           filter_by_workflow_state, workflows_table>>

VARIABLES
    \* ---- Airflow.execute_workflow (py4lexis/workflows/airflow.py) ----
    wpc,                \* position of execute_workflow's control
    cfg_is_none,        \* LexisSession.cfg is None
    token_expiration,   \* LexisSession._token_expiration
    refresh_expiration, \* LexisSession._refresh_expiration
    workflow_input,     \* workflow_input: the token in its conf
    w_sends,            \* posts sent
    w_out,              \* how execute_workflow ended
    \* ---- observation of its calls ----
    checked,            \* what check_token was given and what it did
    posted              \* the last post, and the session's token when it was sent

wfAll == <<wpc, cfg_is_none, token_expiration, refresh_expiration,
           workflow_input, w_sends, w_out, checked, posted>>

dlVars == <<dpc, suppress_print, down_request, d_retries, d_is_error, d_sends,
            d_faults, d_out, d_log, f_opened, nWrites, nProgress>>
dlObs == <<nSubmit, submitted, nPolls, nPending, lastState, nFetch, fetched,
           nPollRefresh, sinceRefresh, lastRefresh>>
dlAll == <<dlVars, dlObs>>

vars == <<upAll, au, seAll, dlAll, trAll, afAll, wfAll>>

(***************************************************************************)
(* Uploader: pure parts.                                                   *)
(***************************************************************************)
\* uploader.py:186  self.stop_at = stop_at or self.get_file_size()
StopAt(arg, size) == IF arg = None \/ arg = 0 THEN size ELSE arg

\* uploader.py:136-141  request_length
request_length(stop, off, chunk) ==
    LET remainder == stop - off
    IN  IF remainder > chunk THEN chunk ELSE remainder

\* uploader.py:18-23  _verify_upload
VerifyUpload(status_code) == 200 <= status_code /\ status_code < 300

\* uploader.py:192  while self.offset < self.stop_at
LoopGuard(off, stop) == off < stop

NoUrlAlways(u) == TRUE
\* uploader.py:206  if not self.url
NoUrl(u) == u = None

CanRetryOneMore(r, done) == r >= done
\* uploader.py:241  if self.retries > self._retried
CanRetry(r, done) == r > done

LocationMissingNever(loc) == FALSE
\* uploader.py:225-226  url = resp.headers.get("location"); if url is None
LocationMissing(loc) == loc = None

OffsetFromResponseKept(hdr, off, len) == off
OffsetFromResponseSum(hdr, off, len) == off + len
\* uploader.py:210  self.offset = int(self.request.response_headers.get('upload-offset'))
OffsetFromResponse(hdr, off, len) == hdr

OffsetFromQueryKept(reported, off) == off
\* uploader.py:246  self.offset = self.get_offset()
OffsetFromQuery(reported, off) == reported

NoRequest == [offset |-> None, length |-> 0, status_code |-> None, hdr |-> None,
              response_content |-> "none"]
NoError == [type |-> "none", origin |-> "none", attempt |-> 0]

\* tusclient TusRequest(self): the request is built from the uploader's offset
\* and request_length at the moment _do_request runs (uploader.py:233)
TusRequest(off, stop, chunk) ==
    [offset |-> off, length |-> request_length(stop, off, chunk),
     status_code |-> None, hdr |-> None, response_content |-> "none"]

Statuses == {199, 200, 204, 299, 300, 500}
\* the bodies of a response that _verify_upload refuses: a JSON object, and
\* the object {"errorString": "Inactive token"}
ChunkBodies == {"object", "inactive"}
Offsets == 0..MaxOff

(***************************************************************************)
(* AsyncUploader (uploader.py:255-341), as a function of its state and of  *)
(* the response it awaits.  Its state is the record au; it runs beside     *)
(* the Uploader and is given the same responses.  get_offset and           *)
(* request_length are inherited from tusclient's BaseUploader, of which    *)
(* uploader.py:67-80 and 135-141 are copies.                               *)
(***************************************************************************)
\* uploader.py:272  self.stop_at = stop_at or self.get_file_size()
AsyncStopAt(arg, size) == IF arg = None \/ arg = 0 THEN size ELSE arg

\* uploader.py:277  while self.offset < self.stop_at
AsyncLoopGuard(off, stop) == off < stop

\* uploader.py:291  if not self.url
AsyncNoUrl(u) == u = None

AsyncCanRetryOneMore(r, done) == r >= done
\* uploader.py:330  if self.retries > self._retried
AsyncCanRetry(r, done) == r > done

\* uploader.py:312-313  url = resp.headers.get("location"); if url is None
AsyncLocationMissing(loc) == loc = None

\* uploader.py:295  self.offset = int(self.request.response_headers.get('upload-offset'))
AsyncOffsetFromResponse(hdr, off, len) == hdr

\* uploader.py:335  self.offset = self.get_offset()
AsyncOffsetFromQuery(reported, off) == reported

\* uploader.py:256-258 with datasets.py:402-404: no url, offset 0
AsyncInit ==
    [pc |-> "init", url |-> None, offset |-> 0, stop_at |-> None,
     retried |-> 0, request |-> NoRequest, raised |-> NoError]

\* uploader.py:260-272: upload(stop_at) up to the first test of the loop
AsyncUpload(a, arg, size) ==
    IF a.pc # "init" THEN a
    ELSE [a EXCEPT !.stop_at = AsyncStopAt(arg, size), !.pc = "loop"]

\* uploader.py:321-324: _do_request builds the AsyncTusRequest and sends it
AsyncDoRequest(a, chunk) ==
    [a EXCEPT !.request = TusRequest(a.offset, a.stop_at, chunk),
              !.pc = "perform"]

\* uploader.py:277-294: the test of the loop, and upload_chunk up to the
\* request it sends
AsyncLoop(a, chunk) ==
    IF a.pc # "loop" THEN a
    ELSE IF ~AsyncLoopGuard(a.offset, a.stop_at)
    THEN [a EXCEPT !.pc = "returned"]
    ELSE IF AsyncNoUrl(a.url)
    THEN [a EXCEPT !.retried = 0, !.pc = "create_url"]
    ELSE AsyncDoRequest([a EXCEPT !.retried = 0], chunk)

\* uploader.py:300-319, 292-294: create_url, given the location header of
\* the response (NetErr for an aiohttp.ClientError), then the first chunk
AsyncCreate(a, loc, chunk) ==
    IF a.pc # "create_url" THEN a
    ELSE IF loc = NetErr \/ AsyncLocationMissing(loc)
    THEN [a EXCEPT !.pc = "raised",
                   !.raised = [type |-> "TusCommunicationError",
                               origin |-> "create_url", attempt |-> 0]]
    ELSE AsyncDoRequest([a EXCEPT !.url = 1, !.offset = 0], chunk)

\* uploader.py:329-341: _retry_or_cry(error), up to the get_offset it sends
AsyncRetryOrCry(a, r, error) ==
    IF AsyncCanRetry(r, a.retried)
    THEN [a EXCEPT !.retried = a.retried + 1, !.pc = "get_offset"]
    ELSE [a EXCEPT !.pc = "raised", !.raised = error]

\* uploader.py:321-327, 295: the response to the chunk (st = NetErr for an
\* aiohttp.ClientError), _verify_upload, and the offset read from the
\* upload-offset header
AsyncPerform(a, st, h, body, r) ==
    IF a.pc # "perform" THEN a
    ELSE IF st = NetErr
    THEN AsyncRetryOrCry(a, r, [type |-> "TusUploadFailed",
                                origin |-> "perform", attempt |-> 0])
    ELSE IF ~VerifyUpload(st)
    THEN AsyncRetryOrCry([a EXCEPT !.request.status_code = st,
                                   !.request.response_content = body], r,
                         [type |-> "TusUploadFailed", origin |-> "perform",
                          attempt |-> 0])
    ELSE IF h = None
    THEN [a EXCEPT !.request.status_code = st, !.request.hdr = None,
                   !.pc = "raised",
                   !.raised = [type |-> "TypeError", origin |-> "header",
                               attempt |-> 0]]
    ELSE [a EXCEPT !.request.status_code = st, !.request.hdr = h,
                   !.offset = AsyncOffsetFromResponse(h, a.offset,
                                                      a.request.length),
                   !.pc = "loop"]

\* uploader.py:333-339: the answer to get_offset (None when it raises
\* TusCommunicationError), then the chunk sent again
AsyncQuery(a, reported, r, chunk) ==
    IF a.pc # "get_offset" THEN a
    ELSE IF reported = None
    THEN AsyncRetryOrCry(a, r, [type |-> "TusCommunicationError",
                                origin |-> "get_offset", attempt |-> 0])
    ELSE AsyncDoRequest(
             [a EXCEPT !.offset = AsyncOffsetFromQuery(reported, a.offset)],
             chunk)

(***************************************************************************)
(* LexisSession: pure parts.                                               *)
(***************************************************************************)
\* session.py:113, 229  "Bearer " + self.TOKEN
Bearer(tok) == <<"Bearer", tok>>

IsSuccessBelow299(sc) == 200 <= sc /\ sc < 299
\* session.py:283  200 <= response.status_code <= 299
IsSuccess(sc) == 200 <= sc /\ sc <= 299

\* session.py:293  response.status_code == 404 or response.status_code >= 500
IsHardFailure(sc) == sc = 404 \/ sc >= 500

\* response.json(): the bodies it decodes, and those among them that are
\* JSON objects (session.py:287, 298-299)
Decodable(body) == body # "garbage"
IsObject(body) == body \in {"object", "inactive", "error"}
\* session.py:299-300  "errorString" in content.keys(), and its value
HasErrorString(body) == body \in {"inactive", "error"}
IsInactiveToken(body) == body = "inactive"

EmptyContent == <<"empty", "none">>
Json(body) == <<"json", body>>
Raw(body) == <<"raw", body>>

\* session.py:292-302: the responses for which handle_request_status calls
\* refresh_token
NeedsRefresh(sc, body) ==
    /\ ~IsSuccess(sc)
    /\ ~IsHardFailure(sc)
    /\ Decodable(body)
    /\ IsObject(body)
    /\ HasErrorString(body)
    /\ IsInactiveToken(body)

RefreshedHeaderStale(new, hdr) == hdr
\* session.py:229  self.API_HEADER = {"Authorization": "Bearer " + self.TOKEN}
RefreshedHeader(new, hdr) == [Authorization |-> Bearer(new), ContentType |-> FALSE]

AfterRefreshUnsolved(is_refreshed) == [status_solved |-> FALSE, is_error |-> FALSE]
\* session.py:302-309  the outcome after  is_refreshed = self.refresh_token()
AfterRefresh(is_refreshed) ==
    IF is_refreshed
    THEN [status_solved |-> FALSE, is_error |-> FALSE]
    ELSE [status_solved |-> TRUE, is_error |-> TRUE]

\* session.py:212-250: refresh_token, given the identity server's reply:
\* the new session fields, and whether it returns True, returns False or
\* raises
refresh_token(tok, rtok, hdr, raise_on_error, reply) ==
    LET new == tok + 1
        failed == IF raise_on_error THEN "raise" ELSE "false"
    IN  CASE reply = "ok" ->
               [TOKEN |-> new, REFRESH_TOKEN |-> new,
                API_HEADER |-> RefreshedHeader(new, hdr),
                result |-> "true"]
          [] reply = "no_refresh_token" ->
               [TOKEN |-> new, REFRESH_TOKEN |-> rtok, API_HEADER |-> hdr,
                result |-> failed]
          [] OTHER ->
               [TOKEN |-> tok, REFRESH_TOKEN |-> rtok, API_HEADER |-> hdr,
                result |-> failed]

\* session.py:279-337: handle_request_status, given the result of the
\* refresh_token call it makes for an inactive token.  exc names the
\* exception that leaves the function, "none" when it returns.
handle_request_status(sc, body, tj, refreshed) ==
    LET ret(c, solved, err) ==
            [content |-> c, status_solved |-> solved, is_error |-> err,
             exc |-> "none"]
        exc(e) ==
            [content |-> EmptyContent, status_solved |-> FALSE,
             is_error |-> FALSE, exc |-> e]
    IN  IF IsSuccess(sc)
        THEN IF tj
             THEN IF Decodable(body)
                  THEN ret(Json(body), TRUE, FALSE)
                  ELSE ret(EmptyContent, TRUE, TRUE)
             ELSE ret(Raw(body), TRUE, FALSE)
        ELSE IF IsHardFailure(sc)
             THEN ret(Raw(body), TRUE, TRUE)
             ELSE IF ~Decodable(body)
                  THEN ret(EmptyContent, FALSE, TRUE)
                  ELSE IF ~IsObject(body)
                       THEN exc("AttributeError")
                       ELSE IF HasErrorString(body) /\ IsInactiveToken(body)
                            THEN IF refreshed = "raise"
                                 THEN exc("Py4LexisException")
                                 ELSE LET r == AfterRefresh(refreshed = "true")
                                      IN  ret(Json(body), r.status_solved,
                                              r.is_error)
                            ELSE ret(Json(body), TRUE, TRUE)

HttpStatuses == {200, 299, 400, 401, 404, 499, 500}
Bodies == {"object", "inactive", "error", "array", "garbage"}
Replies == {"ok", "post_error", "no_access_token", "no_refresh_token"}

(***************************************************************************)
(* A resolve loop over the session: create_dataset (datasets.py:194-228,   *)
(* to_json = True) and the fetch of _ddi_download_dataset                  *)
(* (datasets.py:736-748, to_json = False).                                 *)
(***************************************************************************)
NoResp == [status_code |-> None, body |-> "none", reply |-> "none"]

\* session.py:24-27, 71-75, 110-115: a session that holds a token pair
InitSession ==
    /\ TOKEN = 0
    /\ REFRESH_TOKEN = 0
    /\ API_HEADER = [Authorization |-> Bearer(0), ContentType |-> TRUE]
    /\ exception_on_error \in BOOLEAN
    /\ spc = "init"
    /\ to_json \in BOOLEAN
    /\ status_solved = FALSE
    /\ is_error = FALSE
    /\ content = EmptyContent
    /\ reqAuth = <<"none", None>>
    /\ outcome = "none"
    /\ nSent = 0
    /\ nRefresh = 0
    /\ lastResp = NoResp

\* the session and its loop at rest, in the runs of the uploader
IdleSession ==
    /\ TOKEN = 0
    /\ REFRESH_TOKEN = 0
    /\ API_HEADER = [Authorization |-> Bearer(0), ContentType |-> TRUE]
    /\ exception_on_error = FALSE
    /\ spc = "init"
    /\ to_json = TRUE
    /\ status_solved = FALSE
    /\ is_error = FALSE
    /\ content = EmptyContent
    /\ reqAuth = <<"none", None>>
    /\ outcome = "none"
    /\ nSent = 0
    /\ nRefresh = 0
    /\ lastResp = NoResp

\* the uploader at rest, in the runs of the resolve loop
IdleUploader ==
    /\ upc = "init"
    /\ file_size = 0
    /\ chunk_size = 1
    /\ retries = 0
    /\ url = None
    /\ offset = 0
    /\ stop_at = None
    /\ retried = 0
    /\ request = NoRequest
    /\ raised = NoError
    /\ nCreate = 0
    /\ createResp = "none"
    /\ nChunks = 0
    /\ txInChunk = 0
    /\ nTx = 0
    /\ okPrev = None
    /\ okLast = None
    /\ lastQuery = None
    /\ requeried = FALSE
    /\ qFailInChunk = 0
    /\ fresh = FALSE
    /\ au = AsyncInit

NoLog == [kind |-> "none", reason |-> "none"]
NoSubmit == [status_code |-> None, body |-> "none", result |-> "none"]
NoFetch == [done |-> FALSE, solved_error |-> FALSE, has_length |-> FALSE,
            calls |-> <<>>, exc |-> "none"]

\* no workflow is being looked at
IdleAirflow ==
    /\ apc = "init"
    /\ workflow_runs = <<>>
    /\ filter_by_workflow_run_id = ""
    /\ filter_by_workflow_state = ""
    /\ workflows_table = <<>>

\* no workflow is being executed
IdleWorkflow ==
    /\ wpc = "init"
    /\ cfg_is_none = FALSE
    /\ token_expiration = 1
    /\ refresh_expiration = 1
    /\ workflow_input = [access_token |-> None]
    /\ w_sends = 0
    /\ w_out = "none"
    /\ checked = [done |-> FALSE, elapsed |-> 0, did |-> "none"]
    /\ posted = [access_token |-> None, TOKEN |-> None, auth |-> <<"none", None>>]

\* no listing is being shown
IdleTree ==
    /\ tpc = "init"
    /\ tree_content = [type |-> "directory", has_contents |-> TRUE,
                       contents |-> <<>>]
    /\ lacking = {}
    /\ tree_items = <<>>
    /\ yielded = <<>>
    /\ printed = <<>>
    /\ rows = <<>>

\* download_dataset at rest, in the runs of the other components
IdleDownload ==
    /\ dpc = "init"
    /\ suppress_print = TRUE
    /\ down_request = None
    /\ d_retries = 0
    /\ d_is_error = FALSE
    /\ d_sends = 0
    /\ d_faults = 0
    /\ d_out = "none"
    /\ d_log = NoLog
    /\ f_opened = FALSE
    /\ nWrites = 0
    /\ nProgress = 0
    /\ nSubmit = 0
    /\ submitted = NoSubmit
    /\ nPolls = 0
    /\ nPending = 0
    /\ lastState = "none"
    /\ nFetch = 0
    /\ fetched = NoFetch
    /\ nPollRefresh = 0
    /\ sinceRefresh = 0
    /\ lastRefresh = "none"

\* datasets.py:206-210: the first pass of  while not status_solved  sends
\* the request with the session's current API_HEADER
SendFirst ==
    /\ spc = "init"
    /\ ~status_solved
    /\ reqAuth' = API_HEADER.Authorization
    /\ nSent' = nSent + 1
    /\ spc' = "sent"
    /\ UNCHANGED <<upAll, au, dlAll, trAll, afAll, wfAll, seVars, to_json, status_solved, is_error, content,
                   outcome, nRefresh, lastResp>>

\* datasets.py:206, 212-217: what the caller does with the result of
\* handle_request_status: an exception leaves it, status_solved ends the
\* loop, anything else runs the loop again
LoopStep(sc, body, reply) ==
    LET rt == refresh_token(TOKEN, REFRESH_TOKEN, API_HEADER,
                            exception_on_error, reply)
        res == handle_request_status(sc, body, to_json,
                   IF NeedsRefresh(sc, body) THEN rt.result ELSE "none")
    IN  IF res.exc # "none" THEN "raise"
        ELSE IF res.status_solved THEN "leave" ELSE "again"

\* The response arrives and handle_request_status runs, with the
\* refresh_token call it makes (datasets.py:212-215, session.py:279-337).
\* `then` is what the caller does with the result.
Handle(sc, body, reply, then) ==
    LET need == NeedsRefresh(sc, body)
        rt == refresh_token(TOKEN, REFRESH_TOKEN, API_HEADER,
                            exception_on_error, reply)
        res == handle_request_status(sc, body, to_json,
                                     IF need THEN rt.result ELSE "none")
    IN  /\ need <=> reply # "none"
        /\ lastResp' = [status_code |-> sc, body |-> body, reply |-> reply]
        /\ nRefresh' = IF need THEN nRefresh + 1 ELSE nRefresh
        /\ TOKEN' = IF need THEN rt.TOKEN ELSE TOKEN
        /\ REFRESH_TOKEN' = IF need THEN rt.REFRESH_TOKEN ELSE REFRESH_TOKEN
        /\ API_HEADER' = IF need THEN rt.API_HEADER ELSE API_HEADER
        /\ IF res.exc = "none"
           THEN /\ content' = res.content
                /\ status_solved' = res.status_solved
                /\ is_error' = res.is_error
           ELSE UNCHANGED <<content, status_solved, is_error>>
        /\ CASE then = "raise" ->
                  /\ outcome' = res.exc
                  /\ spc' = "raised"
                  /\ UNCHANGED <<reqAuth, nSent>>
             [] then = "again" ->
                  \* datasets.py:206-210: the loop sends the request again
                  /\ nSent < MaxSends
                  /\ reqAuth' = API_HEADER'.Authorization
                  /\ nSent' = nSent + 1
                  /\ spc' = "sent"
                  /\ outcome' = outcome
             [] OTHER ->
                  \* datasets.py:217-228: the loop is left
                  /\ outcome' = IF is_error'
                                THEN IF exception_on_error
                                     THEN "Py4LexisException"
                                     ELSE "None"
                                ELSE "content"
                  /\ spc' = IF is_error' /\ exception_on_error
                            THEN "raised" ELSE "returned"
                  /\ UNCHANGED <<reqAuth, nSent>>
        /\ UNCHANGED <<upAll, au, dlAll, trAll, afAll, wfAll, exception_on_error, to_json>>

\* handle_request_status returns with status_solved set: the loop ends
HandleSolved ==
    /\ spc = "sent"
    /\ \E sc \in HttpStatuses, body \in Bodies,
          reply \in Replies \cup {"none"} :
          /\ LoopStep(sc, body, reply) = "leave"
          /\ Handle(sc, body, reply, "leave")

\* handle_request_status returns with status_solved unset: the loop sends
\* the request again
HandleAgain ==
    /\ spc = "sent"
    /\ \E sc \in HttpStatuses, body \in Bodies,
          reply \in Replies \cup {"none"} :
          /\ LoopStep(sc, body, reply) = "again"
          /\ Handle(sc, body, reply, "again")

\* an exception leaves handle_request_status and the caller
HandleRaise ==
    /\ spc = "sent"
    /\ \E sc \in HttpStatuses, body \in Bodies,
          reply \in Replies \cup {"none"} :
          /\ LoopStep(sc, body, reply) = "raise"
          /\ Handle(sc, body, reply, "raise")

NextSession ==
    \/ SendFirst
    \/ HandleSolved
    \/ HandleAgain
    \/ HandleRaise

InitSessionSpec ==
    /\ InitSession
    /\ IdleUploader
    /\ IdleDownload
    /\ IdleTree
    /\ IdleAirflow
    /\ IdleWorkflow

SpecSession == InitSessionSpec /\ [][NextSession]_vars

(***************************************************************************)
(* Uploader: initial state (datasets.py:402-404 builds the uploader with   *)
(* no url, so it starts at offset 0 with no resource).                     *)
(***************************************************************************)
InitUploader ==
    /\ upc = "init"
    /\ file_size \in 0..MaxFile
    /\ chunk_size \in 1..MaxChunk
    /\ retries \in 0..MaxRetries
    /\ url = None
    /\ offset = 0
    /\ stop_at = None
    /\ retried = 0
    /\ request = NoRequest
    /\ raised = NoError
    /\ nCreate = 0
    /\ createResp = "none"
    /\ nChunks = 0
    /\ txInChunk = 0
    /\ nTx = 0
    /\ okPrev = None
    /\ okLast = None
    /\ lastQuery = None
    /\ requeried = FALSE
    /\ qFailInChunk = 0
    /\ fresh = FALSE
    /\ au = AsyncInit

(***************************************************************************)
(* Uploader: steps.  One step per network exchange: the code between two   *)
(* exchanges runs without interruption.                                    *)
(***************************************************************************)

\* uploader.py:233-235: _do_request builds the TusRequest and sends the chunk
DoRequest(off) ==
    /\ request' = TusRequest(off, stop_at, chunk_size)
    /\ txInChunk' = txInChunk + 1
    /\ nTx' = nTx + 1
    /\ fresh' = FALSE
    /\ upc' = "perform"

CriedFirst(error) == [error EXCEPT !.origin = "perform", !.attempt = 1]
\* uploader.py:252  raise error: the error _retry_or_cry was called with
Cried(error) == error

\* uploader.py:240-252: _retry_or_cry(error), up to the get_offset it sends
RetryOrCry(error) ==
    IF CanRetry(retries, retried)
    THEN /\ retried' = retried + 1
         /\ upc' = "get_offset"
         /\ raised' = raised
    ELSE /\ retried' = retried
         /\ upc' = "raised"
         /\ raised' = Cried(error)

\* uploader.py:174-191: upload(stop_at) up to the first test of the loop
Upload ==
    /\ upc = "init"
    /\ \E arg \in {None} \cup (0..file_size) :
          stop_at' = StopAt(arg, file_size)
    /\ upc' = "loop"
    /\ \E arg \in {None} \cup (0..file_size) :
          /\ StopAt(arg, file_size) = stop_at'
          /\ au' = AsyncUpload(au, arg, file_size)
    /\ UNCHANGED <<seAll, dlAll, trAll, afAll, wfAll, upCfg, url, offset, retried, request, raised, upObs>>

\* uploader.py:192-199: the loop test fails, upload returns
UploadReturn ==
    /\ upc = "loop"
    /\ ~LoopGuard(offset, stop_at)
    /\ upc' = "returned"
    /\ au' = AsyncLoop(au, chunk_size)
    /\ UNCHANGED <<seAll, dlAll, trAll, afAll, wfAll, upCfg, url, offset, stop_at, retried, request, raised,
                   upObs>>

\* uploader.py:192-193, 201-207: upload_chunk with no url stored sends the
\* create-resource request
ChunkCreate ==
    /\ upc = "loop"
    /\ LoopGuard(offset, stop_at)
    /\ nChunks < MaxChunks
    /\ NoUrl(url)
    /\ retried' = 0
    /\ nChunks' = nChunks + 1
    /\ txInChunk' = 0
    /\ qFailInChunk' = 0
    /\ nCreate' = nCreate + 1
    /\ upc' = "create_url"
    /\ au' = AsyncLoop(au, chunk_size)
    /\ UNCHANGED <<seAll, dlAll, trAll, afAll, wfAll, upCfg, url, offset, stop_at, request, raised, createResp,
                   nTx, okPrev, okLast, lastQuery, requeried, fresh>>

\* uploader.py:192-193, 201-209, 232-235: upload_chunk with a stored url
\* sends the chunk
ChunkSend ==
    /\ upc = "loop"
    /\ LoopGuard(offset, stop_at)
    /\ nChunks < MaxChunks
    /\ ~NoUrl(url)
    /\ retried' = 0
    /\ nChunks' = nChunks + 1
    /\ request' = TusRequest(offset, stop_at, chunk_size)
    /\ txInChunk' = 1
    /\ qFailInChunk' = 0
    /\ nTx' = nTx + 1
    /\ fresh' = FALSE
    /\ upc' = "perform"
    /\ au' = AsyncLoop(au, chunk_size)
    /\ UNCHANGED <<seAll, dlAll, trAll, afAll, wfAll, upCfg, url, offset, stop_at, raised, nCreate, createResp,
                   okPrev, okLast, lastQuery, requeried>>

\* uploader.py:215-230, 207-209: create_url returns (the response passes
\* the test for a location): the url is stored, the offset reset and the
\* first chunk sent
CreateOk ==
    /\ upc = "create_url"
    /\ \E loc \in {None, 1} :
          /\ ~LocationMissing(loc)
          /\ createResp' = IF loc = None THEN "nolocation" ELSE "location"
    /\ url' = 1
    /\ offset' = 0
    /\ DoRequest(0)
    /\ au' = AsyncCreate(au, CASE createResp' = "location" -> 1
                                [] createResp' = "nolocation" -> None
                                [] OTHER -> NetErr, chunk_size)
    /\ UNCHANGED <<seAll, dlAll, trAll, afAll, wfAll, upCfg, stop_at, retried, raised, nCreate, nChunks, okPrev,
                   okLast, lastQuery, requeried, qFailInChunk>>

\* uploader.py:215-230: no location header, or a fault of the HTTP library
\* (catch_requests_error): TusCommunicationError leaves upload()
CreateFail ==
    /\ upc = "create_url"
    /\ \E loc \in {None, 1, NetErr} :
          /\ loc = NetErr \/ LocationMissing(loc)
          /\ createResp' = IF loc = NetErr THEN "neterror" ELSE "nolocation"
    /\ upc' = "raised"
    /\ raised' = [type |-> "TusCommunicationError", origin |-> "create_url",
                  attempt |-> 0]
    /\ au' = AsyncCreate(au, CASE createResp' = "location" -> 1
                                [] createResp' = "nolocation" -> None
                                [] OTHER -> NetErr, chunk_size)
    /\ UNCHANGED <<seAll, dlAll, trAll, afAll, wfAll, upCfg, url, offset, stop_at, retried, request, nCreate,
                   nChunks, txInChunk, nTx, okPrev, okLast, lastQuery,
                   requeried, qFailInChunk, fresh>>

\* uploader.py:235-236, 210: a response that _verify_upload accepts; the
\* offset is read from its upload-offset header
PerformOk ==
    /\ upc = "perform"
    /\ \E st \in Statuses, h \in Offsets :
          /\ VerifyUpload(st)
          /\ request' = [request EXCEPT !.status_code = st, !.hdr = h]
          /\ offset' = OffsetFromResponse(h, offset, request.length)
    /\ okPrev' = okLast
    /\ okLast' = offset'
    /\ fresh' = TRUE
    /\ upc' = "loop"
    /\ au' = AsyncPerform(au, IF request'.status_code = None THEN NetErr
                                ELSE request'.status_code,
                           request'.hdr, request'.response_content, retries)
    /\ UNCHANGED <<seAll, dlAll, trAll, afAll, wfAll, upCfg, url, stop_at, retried, raised, nCreate, createResp,
                   nChunks, txInChunk, nTx, lastQuery, requeried,
                   qFailInChunk>>

\* uploader.py:210: an accepted response without upload-offset header:
\* int(None) raises TypeError, which leaves upload()
PerformNoHeader ==
    /\ upc = "perform"
    /\ \E st \in Statuses :
          /\ VerifyUpload(st)
          /\ request' = [request EXCEPT !.status_code = st, !.hdr = None]
    /\ upc' = "raised"
    /\ raised' = [type |-> "TypeError", origin |-> "header",
                  attempt |-> txInChunk]
    /\ au' = AsyncPerform(au, IF request'.status_code = None THEN NetErr
                                ELSE request'.status_code,
                           request'.hdr, request'.response_content, retries)
    /\ UNCHANGED <<seAll, dlAll, trAll, afAll, wfAll, upCfg, url, offset, stop_at, retried, upObs>>

\* uploader.py:234-252: the transmission fails (a status _verify_upload
\* rejects, or a fault of the HTTP library): _retry_or_cry
PerformFail ==
    /\ upc = "perform"
    /\ \E st \in Statuses \cup {NetErr}, body \in ChunkBodies \cup {"none"} :
          /\ st # NetErr => ~VerifyUpload(st)
          /\ st = NetErr <=> body = "none"
          /\ request' = [request EXCEPT
                            !.status_code = IF st = NetErr THEN None ELSE st,
                            !.response_content = body]
    /\ RetryOrCry([type |-> "TusUploadFailed", origin |-> "perform",
                   attempt |-> txInChunk])
    /\ requeried' = FALSE
    /\ au' = AsyncPerform(au, IF request'.status_code = None THEN NetErr
                                ELSE request'.status_code,
                           request'.hdr, request'.response_content, retries)
    /\ UNCHANGED <<seAll, dlAll, trAll, afAll, wfAll, upCfg, url, offset, stop_at, nCreate, createResp, nChunks,
                   txInChunk, nTx, okPrev, okLast, lastQuery, qFailInChunk,
                   fresh>>

\* uploader.py:67-80, 246, 249-250: get_offset answers; the offset is set
\* from it and the chunk is sent again
QueryOk ==
    /\ upc = "get_offset"
    /\ \E reported \in Offsets :
          /\ offset' = OffsetFromQuery(reported, offset)
          /\ lastQuery' = reported
          /\ DoRequest(offset')
    /\ requeried' = TRUE
    /\ au' = AsyncQuery(au, lastQuery', retries, chunk_size)
    /\ UNCHANGED <<seAll, dlAll, trAll, afAll, wfAll, upCfg, url, stop_at, retried, raised, nCreate, createResp,
                   nChunks, okPrev, okLast, qFailInChunk>>

\* uploader.py:67-80, 247-248: get_offset fails (no upload-offset header,
\* or a fault of the HTTP library): _retry_or_cry with that error
QueryFail ==
    /\ upc = "get_offset"
    /\ RetryOrCry([type |-> "TusCommunicationError", origin |-> "get_offset",
                   attempt |-> retried])
    /\ qFailInChunk' = qFailInChunk + 1
    /\ au' = AsyncQuery(au, None, retries, chunk_size)
    /\ UNCHANGED <<seAll, dlAll, trAll, afAll, wfAll, upCfg, url, offset, stop_at, request, nCreate, createResp,
                   nChunks, txInChunk, nTx, okPrev, okLast, lastQuery,
                   requeried, fresh>>

NextUploader ==
    \/ Upload
    \/ UploadReturn
    \/ ChunkCreate
    \/ ChunkSend
    \/ CreateOk
    \/ CreateFail
    \/ PerformOk
    \/ PerformNoHeader
    \/ PerformFail
    \/ QueryOk
    \/ QueryFail

InitUploaderSpec ==
    /\ InitUploader
    /\ IdleSession
    /\ IdleDownload
    /\ IdleTree
    /\ IdleAirflow
    /\ IdleWorkflow

SpecUploader == InitUploaderSpec /\ [][NextUploader]_vars

(***************************************************************************)
(* Datasets.download_dataset (datasets.py:787-884): submit, poll, fetch.   *)
(* The internal_id is a uuid (818-820 return before any request            *)
(* otherwise).  One step per network exchange.                             *)
(***************************************************************************)
\* datasets.py:837  retries_max: int = 200
retries_max == 200

DlStatuses == {200, 400, 404}
DlReplies == {"ok", "post_error"}
\* JSON bodies of the submit response: an object with the key requestId, one
\* with the key request_id, and the bodies of Bodies
SubmitBodies == {"requestId", "request_id", "object", "inactive"}
\* JSON bodies of the status response: {task_state, task_result} for four
\* states, {task_state: ERROR} without task_result, and the bodies of Bodies
StatusBodies == {"PENDING", "SUCCESS", "ERROR", "FAILURE", "ERROR_bare",
                 "object", "inactive"}
FetchBodies == {"object", "inactive"}
\* items that iter_content gives for the body of the fetch response
MaxBody == 2
\* datasets.py:760  chunk_size: int = int(4096)
dl_chunk_size == 4096
\* len(data) of an item of response.iter_content(chunk_size): a full read, or
\* a shorter one (the last of the body; any, when the content is decoded)
DataLens == {1, dl_chunk_size}
BodyData == UNION {[1..n -> DataLens] : n \in 0..MaxBody}
\* response.headers.get("content-length"): None without the header
TotalLengths == {None, dl_chunk_size + 1}
\* unsolved passes of the resolve loops and failed refreshes of the poll
\* loop that one download meets
MaxFaults == 1

\* what response.json() makes of a body, in the terms of handle_request_status
Kind(body) == IF body \in Bodies THEN body ELSE "object"

\* One pass of a resolve loop: the response is handled by
\* handle_request_status, with the refresh_token call it makes
\* (session.py:279-337); the session fields after it.
DlCall(sc, body, tj, reply) ==
    LET need == NeedsRefresh(sc, Kind(body))
        rt == refresh_token(TOKEN, REFRESH_TOKEN, API_HEADER,
                            exception_on_error, reply)
    IN  [need |-> need,
         res |-> handle_request_status(sc, Kind(body), tj,
                                       IF need THEN rt.result ELSE "none"),
         TOKEN |-> IF need THEN rt.TOKEN ELSE TOKEN,
         REFRESH_TOKEN |-> IF need THEN rt.REFRESH_TOKEN ELSE REFRESH_TOKEN,
         API_HEADER |-> IF need THEN rt.API_HEADER ELSE API_HEADER]

\* datasets.py:649, 696, 740  while not status_solved
DlThen(c) ==
    IF c.res.exc # "none" THEN "raise"
    ELSE IF c.res.status_solved THEN "leave" ELSE "again"

DlSession(c, reply) ==
    /\ c.need <=> reply # "none"
    /\ TOKEN' = c.TOKEN
    /\ REFRESH_TOKEN' = c.REFRESH_TOKEN
    /\ API_HEADER' = c.API_HEADER

HasRequestIdEither(body) == body \in {"requestId", "request_id"}
\* datasets.py:660  content["requestId"]
HasRequestId(body) == body = "requestId"

\* datasets.py:659-673: what _ddi_submit_download ends with once its loop is
\* left: "id" for the identifier, "None", or the exception that leaves it
SubmitResult(res, body, raise_on_error) ==
    LET failed == IF raise_on_error THEN "Py4LexisException" ELSE "None"
    IN  IF res.is_error THEN failed
        ELSE IF ~IsObject(Kind(body)) THEN "TypeError"
        ELSE IF HasRequestId(body) THEN "id"
        ELSE failed

UrlFailsNever(request_id) == FALSE
\* datasets.py:691, 734  self.session.API_PATH + "/transfer/status/" + request_id
UrlFails(request_id) == request_id = None

IsTerminalFailureNever(state) == FALSE
\* datasets.py:858  task_state == "ERROR" or task_state == "FAILURE"
IsTerminalFailure(state) == state \in {"ERROR", "FAILURE", "ERROR_bare"}

IsSuccessStateNever(state) == FALSE
\* datasets.py:848  status["task_state"] == "SUCCESS"
IsSuccessState(state) == state = "SUCCESS"

HasTaskState(body) == body \in {"PENDING", "SUCCESS", "ERROR", "FAILURE", "ERROR_bare"}
HasTaskResult(body) == body \in {"PENDING", "SUCCESS", "ERROR", "FAILURE"}

\* datasets.py:704-711, 846-863: what one pass of the poll loop does with
\* the result of _ddi_get_download_status: "SUCCESS", "failed", "pending",
\* or the exception that leaves download_dataset
PollResult(res, body, raise_on_error) ==
    IF res.is_error
    THEN IF raise_on_error THEN "Py4LexisException" ELSE "TypeError"
    ELSE IF ~IsObject(Kind(body)) THEN "TypeError"
    ELSE IF ~HasTaskState(body) THEN "KeyError"
    ELSE IF IsSuccessState(body) THEN "SUCCESS"
    ELSE IF IsTerminalFailure(body)
         THEN IF HasTaskResult(body) THEN "failed" ELSE "KeyError"
    ELSE "pending"

RetriesLeftOneMore(r) == r <= retries_max
\* datasets.py:845  while retries < retries_max
RetriesLeft(r) == r < retries_max

TimedOutNever(r, err) == FALSE
\* datasets.py:873  if retries == retries_max and not is_error
TimedOut(r, err) == r = retries_max /\ ~err

\* datasets.py:873-877: download_dataset's is_error after the poll loop
FinalError(r, err) == err \/ TimedOut(r, err)

\* datasets.py:762, 766-767: dl after the first k passes of the loop, the
\* bytes the destination file has got by then
RECURSIVE Downloaded(_, _)
Downloaded(data, k) ==
    IF k = 0 THEN 0 ELSE Downloaded(data, k - 1) + data[k]

\* datasets.py:759, 765  current = 0 ... current += chunk_size
CurrentAt(data, k) == k * dl_chunk_size

\* datasets.py:762-769: the calls of progress_func, in order: one in each
\* pass of the loop, before the item is written, and one after the loop;
\* each with its arguments and with the bytes written when it is made
ProgressCalls(total_length, data, progress) ==
    IF ~progress \/ total_length = None THEN <<>>
    ELSE [k \in 1..Len(data) |->
             [current |-> CurrentAt(data, k - 1), total |-> total_length,
              written |-> Downloaded(data, k - 1)]]
         \o <<[current |-> total_length, total |-> total_length,
               written |-> Downloaded(data, Len(data))]>>

HasNoLengthNever(has_length) == FALSE
\* datasets.py:751, 755  total_length is None
HasNoLength(has_length) == ~has_length

\* datasets.py:754-769: the writing of the destination file.  io names the
\* call that fails with an IOError: "open", "write" (the first write), or
\* "none".  Gives the calls made and the exception that ends them.
WritePhase(body, total_length, data, io, progress) ==
    LET nchunks == Len(data)
        calls == ProgressCalls(total_length, data, progress)
    IN  IF io = "open"
        THEN [opened |-> FALSE, writes |-> 0, progress |-> 0,
              calls |-> <<>>, exc |-> "IOError"]
        ELSE IF HasNoLength(total_length # None)
        THEN [opened |-> TRUE, writes |-> 1, progress |-> 0, calls |-> <<>>,
              exc |-> IF body[1] # "raw" THEN "TypeError"
                      ELSE IF io = "write" THEN "IOError" ELSE "none"]
        ELSE IF io = "write" /\ nchunks > 0
        THEN [opened |-> TRUE, writes |-> 1,
              progress |-> IF progress THEN 1 ELSE 0,
              calls |-> SubSeq(calls, 1, IF progress THEN 1 ELSE 0),
              exc |-> "IOError"]
        ELSE [opened |-> TRUE, writes |-> nchunks,
              progress |-> IF progress THEN nchunks + 1 ELSE 0,
              calls |-> calls, exc |-> "none"]

\* datasets.py:771-784: what _ddi_download_dataset ends with: "None" when it
\* returns, or the exception that leaves it
FetchResult(res, w, raise_on_error) ==
    IF w.exc = "TypeError" THEN "TypeError"
    ELSE IF res.is_error \/ w.exc = "IOError"
         THEN IF raise_on_error THEN "Py4LexisException" ELSE "None"
         ELSE "None"

\* what no step of download_dataset changes
dlFrame == <<upAll, au, trAll, afAll, wfAll, loVars, seObs, exception_on_error, suppress_print>>

InitDownload ==
    /\ TOKEN = 0
    /\ REFRESH_TOKEN = 0
    /\ API_HEADER = [Authorization |-> Bearer(0), ContentType |-> TRUE]
    /\ exception_on_error \in BOOLEAN
    /\ spc = "init"
    /\ to_json = TRUE
    /\ status_solved = FALSE
    /\ is_error = FALSE
    /\ content = EmptyContent
    /\ reqAuth = <<"none", None>>
    /\ outcome = "none"
    /\ nSent = 0
    /\ nRefresh = 0
    /\ lastResp = NoResp
    /\ dpc = "init"
    /\ suppress_print \in BOOLEAN
    /\ down_request = None
    /\ d_retries = 0
    /\ d_is_error = FALSE
    /\ d_sends = 0
    /\ d_faults = 0
    /\ d_out = "none"
    /\ d_log = NoLog
    /\ f_opened = FALSE
    /\ nWrites = 0
    /\ nProgress = 0
    /\ nSubmit = 0
    /\ submitted = NoSubmit
    /\ nPolls = 0
    /\ nPending = 0
    /\ lastState = "none"
    /\ nFetch = 0
    /\ fetched = NoFetch
    /\ nPollRefresh = 0
    /\ sinceRefresh = 0
    /\ lastRefresh = "none"

\* datasets.py:873-884: the end of download_dataset, with its is_error
DlFinish(err) ==
    /\ d_is_error' = err
    /\ d_out' = IF err
                THEN IF exception_on_error THEN "Py4LexisException"
                     ELSE "failed"
                ELSE "success"
    /\ dpc' = IF err /\ exception_on_error THEN "raised" ELSE "returned"

\* an exception leaves download_dataset
DlRaise(e) ==
    /\ d_out' = e
    /\ dpc' = "raised"

\* datasets.py:828, 645-652: download_dataset calls _ddi_submit_download,
\* which sends its request
DlSubmit ==
    /\ dpc = "init"
    /\ dpc' = "submit"
    /\ nSubmit' = nSubmit + 1
    /\ d_sends' = 1
    /\ UNCHANGED <<dlFrame, d_faults, TOKEN, REFRESH_TOKEN, API_HEADER, down_request,
                   d_retries, d_is_error, d_out, d_log, f_opened, nWrites,
                   nProgress, submitted, nPolls, nPending, lastState, nFetch,
                   fetched, nPollRefresh, sinceRefresh, lastRefresh>>

\* datasets.py:649-657: the submit is not solved and is sent again
DlSubmitAgain ==
    /\ dpc = "submit"
    /\ d_faults < MaxFaults
    /\ \E sc \in DlStatuses, body \in SubmitBodies,
          reply \in DlReplies \cup {"none"} :
          LET c == DlCall(sc, body, TRUE, reply)
          IN  /\ c.need <=> reply # "none"
              /\ DlThen(c) = "again"
              /\ DlSession(c, reply)
    /\ d_sends' = d_sends + 1
    /\ d_faults' = d_faults + 1
    /\ UNCHANGED <<dlFrame, dpc, down_request, d_retries, d_is_error, d_out,
                   d_log, f_opened, nWrites, nProgress, nSubmit, submitted,
                   nPolls, nPending, lastState, nFetch, fetched,
                   nPollRefresh, sinceRefresh, lastRefresh>>

\* datasets.py:659-673, 833-848, 691-697: _ddi_submit_download returns (the
\* identifier or None) and the first status request is sent
DlSubmitReturn ==
    /\ dpc = "submit"
    /\ \E sc \in DlStatuses, body \in SubmitBodies,
          reply \in DlReplies \cup {"none"} :
          LET c == DlCall(sc, body, TRUE, reply)
              r == SubmitResult(c.res, body, exception_on_error)
          IN  /\ c.need <=> reply # "none"
              /\ DlThen(c) = "leave"
              /\ r \in {"id", "None"}
              /\ DlSession(c, reply)
              /\ submitted' = [status_code |-> sc, body |-> body,
                               result |-> r]
              /\ down_request' = IF r = "id" THEN 1 ELSE None
    /\ ~UrlFails(down_request')
    /\ dpc' = "poll"
    /\ nPolls' = nPolls + 1
    /\ sinceRefresh' = sinceRefresh + 1
    /\ d_sends' = 1
    /\ UNCHANGED <<dlFrame, d_faults, d_retries, d_is_error, d_out, d_log,
                   f_opened, nWrites, nProgress, nSubmit, nPending,
                   lastState, nFetch, fetched, nPollRefresh, lastRefresh>>

\* datasets.py:659-673, 846, 691: an exception leaves _ddi_submit_download,
\* or it returns and the url of the status request cannot be built
DlSubmitRaise ==
    /\ dpc = "submit"
    /\ \E sc \in DlStatuses, body \in SubmitBodies,
          reply \in DlReplies \cup {"none"} :
          LET c == DlCall(sc, body, TRUE, reply)
              r == IF DlThen(c) = "raise" THEN c.res.exc
                   ELSE SubmitResult(c.res, body, exception_on_error)
          IN  /\ c.need <=> reply # "none"
              /\ DlThen(c) # "again"
              /\ DlSession(c, reply)
              /\ submitted' = [status_code |-> sc, body |-> body,
                               result |-> r]
              /\ down_request' = IF r = "id" THEN 1 ELSE None
              /\ IF r \in {"id", "None"}
                 THEN /\ UrlFails(down_request')
                      /\ DlRaise("TypeError")
                 ELSE DlRaise(r)
    /\ UNCHANGED <<dlFrame, d_faults, d_retries, d_is_error, d_sends, d_log,
                   f_opened, nWrites, nProgress, nSubmit, nPolls, nPending,
                   lastState, nFetch, fetched, nPollRefresh, sinceRefresh,
                   lastRefresh>>

\* datasets.py:696-702: the status request is not solved and is sent again
DlPollAgain ==
    /\ dpc = "poll"
    /\ d_faults < MaxFaults
    /\ \E sc \in DlStatuses, body \in StatusBodies,
          reply \in DlReplies \cup {"none"} :
          LET c == DlCall(sc, body, TRUE, reply)
          IN  /\ c.need <=> reply # "none"
              /\ DlThen(c) = "again"
              /\ DlSession(c, reply)
    /\ d_sends' = d_sends + 1
    /\ d_faults' = d_faults + 1
    /\ UNCHANGED <<dlFrame, dpc, down_request, d_retries, d_is_error, d_out,
                   d_log, f_opened, nWrites, nProgress, nSubmit, submitted,
                   nPolls, nPending, lastState, nFetch, fetched,
                   nPollRefresh, sinceRefresh, lastRefresh>>

\* datasets.py:863-869: the state is not terminal; refresh_token is called
DlPollPending ==
    /\ dpc = "poll"
    /\ \E sc \in DlStatuses, body \in StatusBodies,
          reply \in DlReplies \cup {"none"} :
          LET c == DlCall(sc, body, TRUE, reply)
          IN  /\ c.need <=> reply # "none"
              /\ DlThen(c) = "leave"
              /\ PollResult(c.res, body, exception_on_error) = "pending"
              /\ DlSession(c, reply)
              /\ lastState' = body
    /\ nPending' = nPending + 1
    /\ dpc' = "refresh"
    /\ UNCHANGED <<dlFrame, d_faults, down_request, d_retries, d_is_error, d_sends,
                   d_out, d_log, f_opened, nWrites, nProgress, nSubmit,
                   submitted, nPolls, nFetch, fetched, nPollRefresh,
                   sinceRefresh, lastRefresh>>

\* datasets.py:848-855, 734-743: the state is SUCCESS; _ddi_download_dataset
\* is called and sends the fetch request
DlPollSuccess ==
    /\ dpc = "poll"
    /\ \E sc \in DlStatuses, body \in StatusBodies,
          reply \in DlReplies \cup {"none"} :
          LET c == DlCall(sc, body, TRUE, reply)
          IN  /\ c.need <=> reply # "none"
              /\ DlThen(c) = "leave"
              /\ PollResult(c.res, body, exception_on_error) = "SUCCESS"
              /\ DlSession(c, reply)
              /\ lastState' = body
    /\ ~UrlFails(down_request)
    /\ dpc' = "fetch"
    /\ nFetch' = nFetch + 1
    /\ d_sends' = 1
    /\ UNCHANGED <<dlFrame, d_faults, down_request, d_retries, d_is_error, d_out,
                   d_log, f_opened, nWrites, nProgress, nSubmit, submitted,
                   nPolls, nPending, fetched, nPollRefresh, sinceRefresh,
                   lastRefresh>>

\* datasets.py:858-861, 873-881: the state is ERROR or FAILURE; the loop is
\* left with is_error and the task_result is logged
DlPollFailed ==
    /\ dpc = "poll"
    /\ \E sc \in DlStatuses, body \in StatusBodies,
          reply \in DlReplies \cup {"none"} :
          LET c == DlCall(sc, body, TRUE, reply)
          IN  /\ c.need <=> reply # "none"
              /\ DlThen(c) = "leave"
              /\ PollResult(c.res, body, exception_on_error) = "failed"
              /\ DlSession(c, reply)
              /\ lastState' = body
              /\ d_log' = [kind |-> "request failed",
                           reason |-> <<"task_result", body>>]
    /\ DlFinish(FinalError(d_retries, TRUE))
    /\ UNCHANGED <<dlFrame, d_faults, down_request, d_retries, d_sends, f_opened,
                   nWrites, nProgress, nSubmit, submitted, nPolls, nPending,
                   nFetch, fetched, nPollRefresh, sinceRefresh, lastRefresh>>

\* an exception leaves the status call or the pass of the poll loop
\* (session.py:299, 245; datasets.py:708, 848, 860)
DlPollRaise ==
    /\ dpc = "poll"
    /\ \E sc \in DlStatuses, body \in StatusBodies,
          reply \in DlReplies \cup {"none"} :
          LET c == DlCall(sc, body, TRUE, reply)
              r == IF DlThen(c) = "raise" THEN c.res.exc
                   ELSE PollResult(c.res, body, exception_on_error)
          IN  /\ c.need <=> reply # "none"
              /\ DlThen(c) # "again"
              /\ r \notin {"pending", "SUCCESS", "failed"}
              /\ DlSession(c, reply)
              /\ lastState' = IF DlThen(c) = "leave" /\ c.res.is_error
                              THEN "error" ELSE body
              /\ DlRaise(r)
              /\ d_is_error' = (/\ DlThen(c) = "leave"
                                /\ ~c.res.is_error
                                /\ IsObject(Kind(body))
                                /\ IsTerminalFailure(body))
    /\ UNCHANGED <<dlFrame, d_faults, down_request, d_retries, d_sends, d_log,
                   f_opened, nWrites, nProgress, nSubmit, submitted, nPolls,
                   nPending, nFetch, fetched, nPollRefresh, sinceRefresh,
                   lastRefresh>>
\* datasets.py:869, session.py:243-245: refresh_token raises
DlRefreshRaise ==
    /\ dpc = "refresh"
    /\ \E reply \in DlReplies :
          LET rt == refresh_token(TOKEN, REFRESH_TOKEN, API_HEADER,
                                  exception_on_error, reply)
          IN  /\ rt.result = "raise"
              /\ TOKEN' = rt.TOKEN
              /\ REFRESH_TOKEN' = rt.REFRESH_TOKEN
              /\ API_HEADER' = rt.API_HEADER
              /\ lastRefresh' = rt.result
    /\ nPollRefresh' = nPollRefresh + 1
    /\ sinceRefresh' = 0
    /\ DlRaise("Py4LexisException")
    /\ UNCHANGED <<dlFrame, d_faults, down_request, d_retries, d_is_error, d_sends,
                   d_log, f_opened, nWrites, nProgress, nSubmit, submitted,
                   nPolls, nPending, lastState, nFetch, fetched>>

\* the next status request sent with no refresh_token call before it
DlNextUnrefreshed ==
    /\ dpc = "refresh"
    /\ RetriesLeft(d_retries + 1)
    /\ d_retries' = d_retries + 1
    /\ ~UrlFails(down_request)
    /\ dpc' = "poll"
    /\ nPolls' = nPolls + 1
    /\ sinceRefresh' = sinceRefresh + 1
    /\ d_sends' = 1
    /\ UNCHANGED <<dlFrame, TOKEN, REFRESH_TOKEN, API_HEADER, d_faults,
                   nPollRefresh, lastRefresh, down_request, d_is_error, d_out,
                   d_log, f_opened, nWrites, nProgress, nSubmit, submitted,
                   nPending, lastState, nFetch, fetched>>

\* datasets.py:869-871, 845-846: refresh_token returns, retries is counted
\* and the next status request is sent
DlRefreshNext ==
    /\ dpc = "refresh"
    /\ \E reply \in DlReplies :
          LET rt == refresh_token(TOKEN, REFRESH_TOKEN, API_HEADER,
                                  exception_on_error, reply)
          IN  /\ rt.result # "raise"
              /\ IF rt.result = "false"
                 THEN /\ d_faults < MaxFaults
                      /\ d_faults' = d_faults + 1
                 ELSE d_faults' = d_faults
              /\ TOKEN' = rt.TOKEN
              /\ REFRESH_TOKEN' = rt.REFRESH_TOKEN
              /\ API_HEADER' = rt.API_HEADER
              /\ lastRefresh' = rt.result
    /\ RetriesLeft(d_retries + 1)
    /\ d_retries' = d_retries + 1
    /\ nPollRefresh' = nPollRefresh + 1
    /\ ~UrlFails(down_request)
    /\ dpc' = "poll"
    /\ nPolls' = nPolls + 1
    /\ sinceRefresh' = 1
    /\ d_sends' = 1
    /\ UNCHANGED <<dlFrame, down_request, d_is_error, d_out, d_log, f_opened,
                   nWrites, nProgress, nSubmit, submitted, nPending,
                   lastState, nFetch, fetched>>

\* datasets.py:869-881: refresh_token returns, retries is counted and the
\* poll loop ends for lack of retries
DlRefreshTimeout ==
    /\ dpc = "refresh"
    /\ \E reply \in DlReplies :
          LET rt == refresh_token(TOKEN, REFRESH_TOKEN, API_HEADER,
                                  exception_on_error, reply)
          IN  /\ rt.result # "raise"
              /\ IF rt.result = "false"
                 THEN /\ d_faults < MaxFaults
                      /\ d_faults' = d_faults + 1
                 ELSE d_faults' = d_faults
              /\ TOKEN' = rt.TOKEN
              /\ REFRESH_TOKEN' = rt.REFRESH_TOKEN
              /\ API_HEADER' = rt.API_HEADER
              /\ lastRefresh' = rt.result
    /\ ~RetriesLeft(d_retries + 1)
    /\ d_retries' = d_retries + 1
    /\ nPollRefresh' = nPollRefresh + 1
    /\ sinceRefresh' = 0
    /\ d_log' = IF TimedOut(d_retries', d_is_error)
                THEN [kind |-> "maximum retries", reason |-> "none"]
                ELSE d_log
    /\ DlFinish(FinalError(d_retries', d_is_error))
    /\ UNCHANGED <<dlFrame, down_request, d_sends, f_opened, nWrites,
                   nProgress, nSubmit, submitted, nPolls, nPending,
                   lastState, nFetch, fetched>>

\* datasets.py:740-748: the fetch request is not solved and is sent again
DlFetchAgain ==
    /\ dpc = "fetch"
    /\ d_faults < MaxFaults
    /\ \E sc \in DlStatuses, body \in FetchBodies,
          reply \in DlReplies \cup {"none"} :
          LET c == DlCall(sc, body, FALSE, reply)
          IN  /\ c.need <=> reply # "none"
              /\ DlThen(c) = "again"
              /\ DlSession(c, reply)
    /\ d_sends' = d_sends + 1
    /\ d_faults' = d_faults + 1
    /\ UNCHANGED <<dlFrame, dpc, down_request, d_retries, d_is_error, d_out,
                   d_log, f_opened, nWrites, nProgress, nSubmit, submitted,
                   nPolls, nPending, lastState, nFetch, fetched,
                   nPollRefresh, sinceRefresh, lastRefresh>>

\* datasets.py:750-784, 856, 873-884: the fetch is solved, the destination
\* file is written and _ddi_download_dataset returns; download_dataset
\* leaves its loop and ends
DlFetchReturn ==
    /\ dpc = "fetch"
    /\ \E sc \in DlStatuses, body \in FetchBodies,
          reply \in DlReplies \cup {"none"},
          total_length \in TotalLengths, data \in BodyData,
          io \in {"none", "open", "write"} :
          LET c == DlCall(sc, body, FALSE, reply)
              has_length == total_length # None
              w == WritePhase(c.res.content, total_length, data, io,
                              ~suppress_print)
          IN  /\ total_length = None => data = <<>>
              /\ c.need <=> reply # "none"
              /\ DlThen(c) = "leave"
              /\ FetchResult(c.res, w, exception_on_error) = "None"
              /\ DlSession(c, reply)
              /\ f_opened' = w.opened
              /\ nWrites' = w.writes
              /\ nProgress' = w.progress
              /\ fetched' = [done |-> TRUE, solved_error |-> c.res.is_error,
                             has_length |-> has_length, calls |-> w.calls,
                             exc |-> w.exc]
    /\ DlFinish(FinalError(d_retries, d_is_error))
    /\ UNCHANGED <<dlFrame, d_faults, down_request, d_retries, d_sends, d_log, nSubmit,
                   submitted, nPolls, nPending, lastState, nFetch,
                   nPollRefresh, sinceRefresh, lastRefresh>>

\* an exception leaves _ddi_download_dataset and download_dataset
\* (session.py:299, 245; datasets.py:756, 784)
DlFetchRaise ==
    /\ dpc = "fetch"
    /\ \E sc \in DlStatuses, body \in FetchBodies,
          reply \in DlReplies \cup {"none"},
          total_length \in TotalLengths, data \in BodyData,
          io \in {"none", "open", "write"} :
          LET c == DlCall(sc, body, FALSE, reply)
              has_length == total_length # None
              w == WritePhase(c.res.content, total_length, data, io,
                              ~suppress_print)
          IN  /\ total_length = None => data = <<>>
              /\ DlSession(c, reply)
              /\ \/ /\ DlThen(c) = "raise"
                    /\ DlRaise(c.res.exc)
                    /\ fetched' = [done |-> TRUE, solved_error |-> FALSE,
                                   has_length |-> has_length,
                                   calls |-> <<>>, exc |-> c.res.exc]
                    /\ UNCHANGED <<f_opened, nWrites, nProgress>>
                 \/ /\ DlThen(c) = "leave"
                    /\ FetchResult(c.res, w, exception_on_error) # "None"
                    /\ DlRaise(FetchResult(c.res, w, exception_on_error))
                    /\ f_opened' = w.opened
                    /\ nWrites' = w.writes
                    /\ nProgress' = w.progress
                    /\ fetched' = [done |-> TRUE, solved_error |-> c.res.is_error,
                                   has_length |-> has_length,
                                   calls |-> w.calls, exc |-> w.exc]
    /\ UNCHANGED <<dlFrame, d_faults, down_request, d_retries, d_is_error, d_sends,
                   d_log, nSubmit, submitted, nPolls, nPending, lastState,
                   nFetch, nPollRefresh, sinceRefresh, lastRefresh>>

NextDownload ==
    \/ DlSubmit
    \/ DlSubmitAgain
    \/ DlSubmitReturn
    \/ DlSubmitRaise
    \/ DlPollAgain
    \/ DlPollPending
    \/ DlPollSuccess
    \/ DlPollFailed
    \/ DlPollRaise
    \/ DlRefreshRaise
    \/ DlRefreshNext
    \/ DlRefreshTimeout
    \/ DlFetchAgain
    \/ DlFetchReturn
    \/ DlFetchRaise

InitDownloadSpec ==
    /\ InitDownload
    /\ IdleUploader
    /\ IdleTree
    /\ IdleAirflow
    /\ IdleWorkflow

SpecDownload == InitDownloadSpec /\ [][NextDownload]_vars

(***************************************************************************)
(* DirectoryTree (directory_tree.py) and the objects it is made of         *)
(* (custom_types/directory_tree.py).  A listing is the "contents" of the   *)
(* response: a sequence of descriptors, each a file or a directory with a  *)
(* listing of its own.  A descriptor is named by its path, the positions   *)
(* that lead to it from the root.  The keys in lacking are absent from     *)
(* every descriptor of the response; a directory descriptor may also come  *)
(* without its "contents".                                                 *)
(***************************************************************************)
MaxNodes == 4

MetaKeys == {"name", "size", "create_time", "checksum"}

File == [type |-> "file", has_contents |-> FALSE, contents |-> <<>>]
Directory(c) == [type |-> "directory", has_contents |-> TRUE, contents |-> c]
Truncated == [type |-> "directory", has_contents |-> FALSE, contents |-> <<>>]

RECURSIVE ListingsOf(_)
\* the listings of exactly n descriptors, nested ones counted
ListingsOf(n) ==
    IF n = 0 THEN {<<>>}
    ELSE UNION { { <<t>> \o rest :
                       t \in (IF k = 1 THEN {File, Truncated} ELSE {})
                             \cup { Directory(c) : c \in ListingsOf(k - 1) },
                       rest \in ListingsOf(n - k) } : k \in 1..n }

Listings == UNION { ListingsOf(n) : n \in 0..MaxNodes }

\* the keys of a descriptor of the response
KeysOf(item) ==
    ((IF item.type = "directory" THEN {"name"} ELSE MetaKeys) \ lacking)
    \cup (IF item.has_contents THEN {"contents"} ELSE {})

\* Pieces of text.  A literal of the code; the value of a key of the
\* descriptor at a path; and the strings "<glyph> <name>" and <name> + "/"
\* made of them.
Literal(s) == [lit |-> TRUE, text |-> s, of |-> <<>>, glyph |-> "", slash |-> FALSE]
Value(key, path) ==
    [lit |-> FALSE, text |-> key, of |-> path, glyph |-> "", slash |-> FALSE]
KeyError == Literal("KeyError")
NoField == Literal("")

\* dict[key]
Get(keys, key, path) == IF key \in keys THEN Value(key, path) ELSE KeyError

HasKeyAlways(keys, key) == TRUE
\* custom_types/directory_tree.py:26, 57, 65, 70, 75  if "<key>" in d.keys()
HasKey(keys, key) == key \in keys

\* custom_types/directory_tree.py:27  directory["name"] + "/"
Slash(v) == IF v = KeyError THEN v ELSE [v EXCEPT !.slash = TRUE]

\* custom_types/directory_tree.py:22-29: TreeDirectoryObject(directory)
TreeDirectoryObject(item, path) ==
    LET keys == KeysOf(item)
        contents == Get(keys, "contents", path)
        name == IF HasKey(keys, "name") THEN Slash(Get(keys, "name", path))
                ELSE Literal("UKNOWN_dir/")
    IN  [dir |-> TRUE, contents |-> item.contents, name |-> name,
         size |-> NoField, create_time |-> NoField, checksum |-> NoField,
         exc |-> IF KeyError \in {contents, name} THEN "KeyError" ELSE "none"]

\* custom_types/directory_tree.py:56-80: TreeFileObject(file)
TreeFileObject(item, path) ==
    LET keys == KeysOf(item)
        checksum == IF HasKey(keys, "checksum")
                    THEN Get(keys, "checksum", path)
                    ELSE Literal("UKNOWN Checksum")
        create_time == IF HasKey(keys, "create_time")
                       THEN Get(keys, "create_time", path)
                       ELSE Literal("UKNOWN Create Time")
        size == IF HasKey(keys, "size") THEN Get(keys, "size", path)
                ELSE Literal("UKNOWN size")
        name == IF HasKey(keys, "name") THEN Get(keys, "name", path)
                ELSE Literal("UKNOWN name")
    IN  [dir |-> FALSE, contents |-> <<>>, name |-> name, size |-> size,
         create_time |-> create_time, checksum |-> checksum,
         exc |-> IF KeyError \in {checksum, create_time, size, name}
                 THEN "KeyError" ELSE "none"]

\* directory_tree.py:81  if item["type"] == "directory"
IsDirectoryItem(item) == item.type = "directory"

\* directory_tree.py:89  if item.is_dir()
\* (custom_types/directory_tree.py:32, 83)
is_dir(obj) == obj.dir

IsFirst(count, n) == count = 1
\* directory_tree.py:88  is_last = count == len(children)
IsLast(count, n) == count = n

NoNode ==
    [path |-> <<>>, dir |-> FALSE, depth |-> 0 - 1, has_parent |-> FALSE,
     parent |-> <<>>, is_last |-> FALSE, name |-> NoField, size |-> NoField,
     create_time |-> NoField, checksum |-> NoField, exc |-> "none"]

\* an exception that leaves the generator, in the place of a node
Raised(e) == [NoNode EXCEPT !.exc = e]

DepthOfParent(has_parent, parent) ==
    IF has_parent THEN parent.depth ELSE 0
\* directory_tree.py:52-55  self.depth = self.parent.depth + 1, or 0
Depth(has_parent, parent) ==
    IF has_parent THEN parent.depth + 1 ELSE 0

\* directory_tree.py:48-55: DirectoryTree(tree_item, parent, is_last); the
\* parent is kept by its path
DirectoryTree(obj, path, has_parent, parent, is_last) ==
    [path |-> path, dir |-> is_dir(obj),
     depth |-> Depth(has_parent, parent),
     has_parent |-> has_parent,
     parent |-> IF has_parent THEN parent.path ELSE <<>>,
     is_last |-> is_last, name |-> obj.name, size |-> obj.size,
     create_time |-> obj.create_time, checksum |-> obj.checksum,
     exc |-> "none"]

\* what follows an exception is not yielded
Then(a, b) ==
    IF Len(a) > 0 /\ a[Len(a)].exc # "none" THEN a ELSE a \o b

YieldLast(node, rest) == rest \o <<node>>
\* directory_tree.py:76-77, 86-95: the node is yielded, then what its
\* children yield
YieldFirst(node, rest) == <<node>> \o rest

RECURSIVE make_tree(_, _, _, _, _)
RECURSIVE YieldChildren(_, _, _, _)
\* directory_tree.py:86-95: the children from the count-th on
YieldChildren(children, count, path, displayable_root) ==
    IF count > Len(children) THEN <<>>
    ELSE LET item == children[count]
             last == IsLast(count, Len(children))
         IN  Then(IF is_dir(item)
                  THEN make_tree(item, Append(path, count), TRUE,
                                 displayable_root, last)
                  ELSE <<DirectoryTree(item, Append(path, count), TRUE,
                                       displayable_root, last)>>,
                  YieldChildren(children, count + 1, path, displayable_root))

\* directory_tree.py:57-95: everything the generator yields, in order; the
\* objects of all children are built (79-84) before the first is yielded
make_tree(root, path, has_parent, parent, is_last) ==
    LET displayable_root ==
            DirectoryTree(root, path, has_parent, parent, is_last)
        children ==
            [i \in 1..Len(root.contents) |->
                IF IsDirectoryItem(root.contents[i])
                THEN TreeDirectoryObject(root.contents[i], Append(path, i))
                ELSE TreeFileObject(root.contents[i], Append(path, i))]
    IN  YieldFirst(displayable_root,
                   IF \E i \in 1..Len(children) : children[i].exc # "none"
                   THEN <<Raised("KeyError")>>
                   ELSE YieldChildren(children, 1, path, displayable_root))

\* directory_tree.py:43-46.  The strings of the class, with the box
\* characters written in ASCII: | for the vertical bar, |-- and +-- for the
\* two branches.
item_prefix_middle == "|--"
item_prefix_last == "+--"
parent_prefix_middle == "    "
parent_prefix_last == "|   "

\* the node that was yielded for a path
NodeAt(path, items) ==
    CHOOSE n \in { items[i] : i \in 1..Len(items) } :
        n.exc = "none" /\ n.path = path

\* reversed(parts)
Reversed(parts) == [i \in 1..Len(parts) |-> parts[Len(parts) + 1 - i]]

\* directory_tree.py:111
FilenamePrefix(last) == IF last THEN item_prefix_last ELSE item_prefix_middle

ParentPrefixSwapped(last) ==
    IF last THEN parent_prefix_last ELSE parent_prefix_middle
\* directory_tree.py:117
ParentPrefix(last) ==
    IF last THEN parent_prefix_middle ELSE parent_prefix_last

RECURSIVE ToStringParts(_, _, _)
\* directory_tree.py:116-118: the loop over the parents, from parent on
ToStringParts(has, parent, items) ==
    IF ~has THEN <<>>
    ELSE LET p == NodeAt(parent, items)
         IN  IF ~p.has_parent THEN <<>>
             ELSE <<Literal(ParentPrefix(p.is_last))>>
                  \o ToStringParts(p.has_parent, p.parent, items)

\* directory_tree.py:98-120: to_string, as the sequence of its pieces
to_string(self, items) ==
    IF ~self.has_parent THEN <<self.name>>
    ELSE Reversed(<<[self.name EXCEPT !.glyph = FilenamePrefix(self.is_last)]>>
                  \o ToStringParts(self.has_parent, self.parent, items))

NoRow ==
    [none |-> TRUE, name |-> NoField, path |-> <<>>, size |-> NoField,
     create_time |-> NoField, checksum |-> NoField]

RowIsNoneNever(self) == FALSE
\* directory_tree.py:132  if self.tree_item.is_dir()
RowIsNone(self) == self.dir

RECURSIVE ToRowParts(_, _, _, _)
\* directory_tree.py:138-140: the loop over the parents, from parent on;
\* what it appends each time is the name of self.parent
ToRowParts(self, has, parent, items) ==
    IF ~has THEN <<>>
    ELSE LET p == NodeAt(parent, items)
         IN  IF ~p.has_parent THEN <<>>
             ELSE <<NodeAt(self.parent, items).name>>
                  \o ToRowParts(self, p.has_parent, p.parent, items)

\* directory_tree.py:122-145: to_dataframe_row; the path as the sequence
\* of its pieces
to_dataframe_row(self, items) ==
    IF RowIsNone(self) THEN NoRow
    ELSE [none |-> FALSE, name |-> self.name,
          path |-> Reversed(<<self.name>>
                            \o ToRowParts(self, self.has_parent, self.parent,
                                          items)
                            \o <<Literal("./")>>),
          size |-> self.size, create_time |-> self.create_time,
          checksum |-> self.checksum]

\* cli/datasets.py:585-588: the tree of the response is made and its nodes
\* are taken one by one
InitTree ==
    /\ tpc = "init"
    /\ tree_content \in {Truncated} \cup { Directory(c) : c \in Listings }
    /\ lacking \in SUBSET MetaKeys
    /\ tree_items = <<>>
    /\ yielded = <<>>
    /\ printed = <<>>
    /\ rows = <<>>

\* cli/datasets.py:585-586  TreeDirectoryObject(content), then
\* DirectoryTree.make_tree(tree_content)
MakeTree ==
    /\ tpc = "init"
    /\ LET root == TreeDirectoryObject(tree_content, <<>>)
       IN  IF root.exc # "none"
           THEN /\ tpc' = "raised"
                /\ tree_items' = tree_items
           ELSE /\ tpc' = "iter"
                /\ tree_items' = make_tree(root, <<>>, FALSE, NoNode, FALSE)
    /\ UNCHANGED <<upAll, au, seAll, dlAll, afAll, wfAll, tree_content, lacking, yielded,
                   printed, rows>>

\* cli/datasets.py:587-588  for item in tree_items: the next node, its line
\* and its row
TreeNext ==
    /\ tpc = "iter"
    /\ Len(yielded) < Len(tree_items)
    /\ LET item == tree_items[Len(yielded) + 1]
       IN  /\ item.exc = "none"
           /\ yielded' = Append(yielded, item)
           /\ printed' = Append(printed, to_string(item, tree_items))
           /\ rows' = Append(rows, to_dataframe_row(item, tree_items))
    /\ UNCHANGED <<upAll, au, seAll, dlAll, afAll, wfAll, tree_content, lacking, tree_items,
                   tpc>>

\* cli/datasets.py:587, directory_tree.py:79-84: building the objects of
\* the children raises, and the exception leaves the loop
TreeRaise ==
    /\ tpc = "iter"
    /\ Len(yielded) < Len(tree_items)
    /\ tree_items[Len(yielded) + 1].exc # "none"
    /\ tpc' = "raised"
    /\ UNCHANGED <<upAll, au, seAll, dlAll, afAll, wfAll, tree_content, lacking, tree_items,
                   yielded, printed, rows>>

\* cli/datasets.py:587: the generator is exhausted
TreeStop ==
    /\ tpc = "iter"
    /\ Len(yielded) = Len(tree_items)
    /\ tpc' = "done"
    /\ UNCHANGED <<upAll, au, seAll, dlAll, afAll, wfAll, tree_content, lacking, tree_items,
                   yielded, printed, rows>>

NextTree ==
    \/ MakeTree
    \/ TreeNext
    \/ TreeRaise
    \/ TreeStop

InitTreeSpec ==
    /\ InitTree
    /\ IdleUploader
    /\ IdleSession
    /\ IdleDownload
    /\ IdleAirflow
    /\ IdleWorkflow

SpecTree == InitTreeSpec /\ [][NextTree]_vars

(***************************************************************************)
(* AirflowCLI.get_workflow_states (cli/airflow.py:170-221): the runs of a  *)
(* workflow are fetched, filtered and shown as a table.                    *)
(***************************************************************************)
MaxRuns == 2

RunIds == {"r1", "r2"}
RunStates == {"success", "failed", "running", ""}
Runs == [workflow_run_id : RunIds, state : RunStates]

RECURSIVE RunLists(_)
\* the lists of at most n runs
RunLists(n) ==
    IF n = 0 THEN {<<>>}
    ELSE RunLists(n - 1)
         \cup { Append(l, r) : l \in RunLists(n - 1), r \in Runs }

\* str.lower() on the filters tried
Lower(s) == IF s = "FAILED" THEN "failed" ELSE s

\* cli/airflow.py:211
ValidStates == {"success", "failed", "running", "queued"}

\* cli/airflow.py:208  workflows_table["WorkflowRunID"] == filter_by_workflow_run_id
ByRunId(table, run_id) ==
    SelectSeq(table, LAMBDA r : r.workflow_run_id = run_id)

\* cli/airflow.py:212  workflows_table["State"] == filter_by_workflow_run_id
ByState(table, run_id, state) ==
    SelectSeq(table, LAMBDA r : r.state = run_id)

\* cli/airflow.py:204-219: the table after the filters
Filtered(table, run_id, state) ==
    IF run_id = "" /\ state = "" THEN table
    ELSE IF run_id # "" THEN ByRunId(table, run_id)
    ELSE IF Lower(state) \in ValidStates THEN ByState(table, run_id, state)
    ELSE table

InitAirflow ==
    /\ apc = "init"
    /\ workflow_runs \in RunLists(MaxRuns)
    /\ filter_by_workflow_run_id \in {""} \cup RunIds
    /\ filter_by_workflow_state \in {"", "success", "FAILED", "done"}
    /\ workflows_table = <<>>

\* cli/airflow.py:194-202: the states arrive and the table is made of them
WorkflowStatesOk ==
    /\ apc = "init"
    /\ workflows_table' = workflow_runs
    /\ apc' = "table"
    /\ UNCHANGED <<upAll, au, seAll, dlAll, trAll, wfAll, workflow_runs,
                   filter_by_workflow_run_id, filter_by_workflow_state>>

\* cli/airflow.py:194-196: the request failed, req_status is None; nothing
\* is shown
WorkflowStatesFailed ==
    /\ apc = "init"
    /\ apc' = "nothing"
    /\ UNCHANGED <<upAll, au, seAll, dlAll, trAll, wfAll, workflow_runs,
                   filter_by_workflow_run_id, filter_by_workflow_state,
                   workflows_table>>

\* cli/airflow.py:204-221: the filters are applied and the table is printed
WorkflowStatesShow ==
    /\ apc = "table"
    /\ workflows_table' = Filtered(workflows_table, filter_by_workflow_run_id,
                                   filter_by_workflow_state)
    /\ apc' = "shown"
    /\ UNCHANGED <<upAll, au, seAll, dlAll, trAll, wfAll, workflow_runs,
                   filter_by_workflow_run_id, filter_by_workflow_state>>

NextAirflow ==
    \/ WorkflowStatesOk
    \/ WorkflowStatesFailed
    \/ WorkflowStatesShow

InitAirflowSpec ==
    /\ InitAirflow
    /\ IdleUploader
    /\ IdleSession
    /\ IdleDownload
    /\ IdleTree
    /\ IdleWorkflow

SpecAirflow == InitAirflowSpec /\ [][NextAirflow]_vars

(***************************************************************************)
(* Airflow.execute_workflow (workflows/airflow.py:275-343) with            *)
(* LexisSession.check_token (session.py:199-210): the token is checked,    *)
(* then the run is posted until handle_request_status has it solved.       *)
(***************************************************************************)
\* the seconds a token may have lived, and those since it was retrieved
MaxAge == 2

\* the bodies of the answer to the post: a dag run with its dag_id,
\* dag_run_id and state, and the bodies of Bodies
WfBodies == {"dag_run", "object", "inactive"}

NoCheck == [done |-> FALSE, elapsed |-> 0, did |-> "none"]
NoPost == [access_token |-> None, TOKEN |-> None, auth |-> <<"none", None>>]

\* session.py:203  elapsed >= self._token_expiration and
\*                 elapsed < self._refresh_expiration
CheckTokenRefreshes(elapsed, texp, rexp) == elapsed >= texp /\ elapsed < rexp

\* session.py:199-210: what check_token does: it calls refresh_token, raises
\* Py4LexisException, prints that the token has expired, or does nothing
check_token(elapsed, texp, rexp, raise_on_error, no_cfg) ==
    IF CheckTokenRefreshes(elapsed, texp, rexp) THEN "refresh"
    ELSE IF raise_on_error THEN "raise"
    ELSE IF no_cfg THEN "print"
    ELSE "nothing"

\* workflows/airflow.py:303-307: workflow_input, made once of the
\* parameters and of the token the session holds then
WorkflowInput(tok) == [access_token |-> tok]

\* workflows/airflow.py:325-343: what execute_workflow ends with once its
\* loop is left
WorkflowResult(res, body, raise_on_error) ==
    IF res.is_error
    THEN IF raise_on_error THEN "Py4LexisException" ELSE "None"
    ELSE IF body = "dag_run" THEN "content" ELSE "KeyError"

\* what no step of execute_workflow changes
wfFrame == <<upAll, au, dlAll, trAll, afAll, loVars, seObs, exception_on_error,
             cfg_is_none, token_expiration, refresh_expiration>>

\* session.py:24-27, 71-77, 110-115, 146-150: a session that holds a token
\* pair and their lifetimes
InitWorkflow ==
    /\ TOKEN = 0
    /\ REFRESH_TOKEN = 0
    /\ API_HEADER = [Authorization |-> Bearer(0), ContentType |-> TRUE]
    /\ exception_on_error \in BOOLEAN
    /\ spc = "init"
    /\ to_json = TRUE
    /\ status_solved = FALSE
    /\ is_error = FALSE
    /\ content = EmptyContent
    /\ reqAuth = <<"none", None>>
    /\ outcome = "none"
    /\ nSent = 0
    /\ nRefresh = 0
    /\ lastResp = NoResp
    /\ wpc = "init"
    /\ cfg_is_none \in BOOLEAN
    /\ token_expiration \in 1..MaxAge
    /\ refresh_expiration \in 1..MaxAge
    /\ workflow_input = WorkflowInput(None)
    /\ w_sends = 0
    /\ w_out = "none"
    /\ checked = NoCheck
    /\ posted = NoPost

\* workflows/airflow.py:314  post(url, headers=self.session.API_HEADER,
\* json=workflow_input): the request, and the token the session holds when
\* it is sent
WfPost ==
    /\ posted' = [access_token |-> workflow_input'.access_token,
                  TOKEN |-> TOKEN', auth |-> API_HEADER'.Authorization]
    /\ w_sends' = w_sends + 1
    /\ wpc' = "sent"
    /\ w_out' = w_out

\* an exception leaves execute_workflow
WfRaised(e) ==
    /\ w_out' = e
    /\ wpc' = "raised"
    /\ UNCHANGED <<posted, w_sends>>

\* workflows/airflow.py:303-314, session.py:203-204: workflow_input is
\* made, check_token calls refresh_token, and the run is posted
WfCheckRefresh ==
    /\ wpc = "init"
    /\ \E elapsed \in 0..MaxAge, reply \in Replies :
          LET rt == refresh_token(TOKEN, REFRESH_TOKEN, API_HEADER,
                                  exception_on_error, reply)
          IN  /\ check_token(elapsed, token_expiration, refresh_expiration,
                             exception_on_error, cfg_is_none) = "refresh"
              /\ workflow_input' = WorkflowInput(TOKEN)
              /\ TOKEN' = rt.TOKEN
              /\ REFRESH_TOKEN' = rt.REFRESH_TOKEN
              /\ API_HEADER' = rt.API_HEADER
              /\ checked' = [done |-> TRUE, elapsed |-> elapsed,
                             did |-> "refresh"]
              /\ IF rt.result = "raise"
                 THEN WfRaised("Py4LexisException")
                 ELSE WfPost
    /\ UNCHANGED wfFrame

\* workflows/airflow.py:303-314, session.py:205-210: workflow_input is
\* made, check_token takes its other branch, and the run is posted unless
\* check_token raised
WfCheckElse ==
    /\ wpc = "init"
    /\ \E elapsed \in 0..MaxAge :
          LET did == check_token(elapsed, token_expiration,
                                 refresh_expiration, exception_on_error,
                                 cfg_is_none)
          IN  /\ did # "refresh"
              /\ workflow_input' = WorkflowInput(TOKEN)
              /\ checked' = [done |-> TRUE, elapsed |-> elapsed, did |-> did]
              /\ UNCHANGED <<TOKEN, REFRESH_TOKEN, API_HEADER>>
              /\ IF did = "raise"
                 THEN WfRaised("Py4LexisException")
                 ELSE WfPost
    /\ UNCHANGED wfFrame

\* workflows/airflow.py:313-320: the post is not solved and is sent again
WfPostAgain ==
    /\ wpc = "sent"
    /\ w_sends < MaxSends
    /\ \E sc \in DlStatuses, body \in WfBodies, reply \in Replies \cup {"none"} :
          LET c == DlCall(sc, body, TRUE, reply)
          IN  /\ DlThen(c) = "again"
              /\ DlSession(c, reply)
    /\ workflow_input' = workflow_input
    /\ WfPost
    /\ UNCHANGED <<wfFrame, checked>>

\* workflows/airflow.py:325-343: the post is solved and execute_workflow
\* returns
WfReturn ==
    /\ wpc = "sent"
    /\ \E sc \in DlStatuses, body \in WfBodies, reply \in Replies \cup {"none"} :
          LET c == DlCall(sc, body, TRUE, reply)
              r == WorkflowResult(c.res, body, exception_on_error)
          IN  /\ DlThen(c) = "leave"
              /\ r \in {"content", "None"}
              /\ DlSession(c, reply)
              /\ w_out' = r
    /\ wpc' = "returned"
    /\ UNCHANGED <<wfFrame, workflow_input, w_sends, checked, posted>>

\* an exception leaves handle_request_status or execute_workflow
\* (session.py:245, 299; workflows/airflow.py:329, 334)
WfRaise ==
    /\ wpc = "sent"
    /\ \E sc \in DlStatuses, body \in WfBodies, reply \in Replies \cup {"none"} :
          LET c == DlCall(sc, body, TRUE, reply)
              r == IF DlThen(c) = "raise" THEN c.res.exc
                   ELSE WorkflowResult(c.res, body, exception_on_error)
          IN  /\ DlThen(c) # "again"
              /\ r \notin {"content", "None"}
              /\ DlSession(c, reply)
              /\ WfRaised(r)
    /\ UNCHANGED <<wfFrame, workflow_input, checked>>

NextWorkflow ==
    \/ WfCheckRefresh
    \/ WfCheckElse
    \/ WfPostAgain
    \/ WfReturn
    \/ WfRaise

InitWorkflowSpec ==
    /\ InitWorkflow
    /\ IdleUploader
    /\ IdleDownload
    /\ IdleTree
    /\ IdleAirflow

SpecWorkflow == InitWorkflowSpec /\ [][NextWorkflow]_vars

(***************************************************************************)
(* Claims about the uploader.                                              *)
(***************************************************************************)

\* C1 as stated: the offset recorded after a successful transmission is
\* never below the offset recorded after the previous one, and equals the
\* upload-offset header of the response.
C1_OffsetMonotoneAndReported ==
    /\ (okPrev # None => okLast >= okPrev)
    /\ (upc \in {"loop", "returned"} /\ nTx > 0 => offset = request.hdr)

\* C1 amended: after every successful chunk transmission (an accepted
\* response that carries an upload-offset header) the recorded offset is
\* the value of that header, whatever offset + chunk length would be.
C1_OffsetIsServerReported ==
    upc \in {"loop", "returned"} /\ nTx > 0 =>
        /\ offset = request.hdr
        /\ okLast = request.hdr

\* C1 witness: two successful transmissions, the second recorded from a
\* header that differs from the locally computed sum.
C1_Witness ==
    /\ upc = "loop"
    /\ okPrev # None
    /\ offset = request.hdr
    /\ offset # request.offset + request.length

\* C2: create_url is issued at most once per upload, only while no url is
\* stored, and every chunk transmission goes to the url it stored.
C2_CreateAtMostOnce ==
    /\ nCreate <= 1
    /\ (upc = "create_url" => url = None)
    /\ (nTx > 0 => nCreate = 1 /\ url # None)

\* C2 witness: a second upload_chunk, with a retry, and still one create.
C2_Witness ==
    /\ nChunks = 2
    /\ txInChunk >= 2
    /\ nCreate = 1

\* C3: a retransmission is sent only after a get_offset that succeeded
\* since the failed transmission, and it starts at the offset that
\* get_offset reported.
C3_RetryFromQueriedOffset ==
    upc = "perform" /\ txInChunk > 1 =>
        /\ requeried
        /\ request.offset = lastQuery
        /\ offset = lastQuery

\* C3 witness: a retransmission that starts at a queried offset other than
\* the offset the uploader had recorded after its last successful chunk.
C3_Witness ==
    /\ upc = "perform"
    /\ txInChunk > 1
    /\ okLast # None
    /\ request.offset = lastQuery
    /\ lastQuery # okLast

\* C4: one upload_chunk makes at most `retries` retries: every retry, a
\* retransmission or a failed offset query, takes one unit of the budget,
\* so at most retries + 1 transmissions are sent; an error of a
\* transmission or of an offset query leaves upload() only with the budget
\* used up, and nothing is sent after it.
C4_RetryBudget ==
    /\ retried <= retries
    /\ txInChunk <= retries + 1
    /\ (txInChunk >= 1 =>
          retried = (txInChunk - 1) + qFailInChunk
                    + (IF upc = "get_offset" THEN 1 ELSE 0))
    /\ (upc = "raised" /\ raised.origin \in {"perform", "get_offset"} =>
          retried = retries)

\* C4 witness: a chunk that fails with the budget of 2 used by one failed
\* offset query and one retransmission.
C4_Witness ==
    /\ upc = "raised"
    /\ raised.type = "TusUploadFailed"
    /\ retries = 2
    /\ txInChunk = 2
    /\ qFailInChunk = 1

\* C5 as stated: upload returns only with offset >= stop_at, and no chunk
\* is sent from an offset that has reached stop_at.
C5_NoChunkAtTarget ==
    /\ (upc = "returned" => offset >= stop_at)
    /\ (upc = "perform" => request.offset < stop_at)

\* C6: a create response without location makes upload() fail with
\* TusCommunicationError, and no chunk is sent.
C6_NoLocationFails ==
    createResp = "nolocation" =>
        /\ upc = "raised"
        /\ raised.type = "TusCommunicationError"
        /\ raised.origin = "create_url"
        /\ nTx = 0
        /\ url = None

\* C6 witness: the create response had no location.
C6_Witness ==
    /\ createResp = "nolocation"
    /\ upc = "raised"
    /\ nCreate = 1

(***************************************************************************)
(* Claims about handle_request_status and the resolve loop.                *)
(***************************************************************************)

\* the last response handled asked for a token refresh: neither a success
\* nor a hard failure, with the body {"errorString": "Inactive token"}
SignalsInactive(r) ==
    /\ r.status_code # None
    /\ ~(200 <= r.status_code /\ r.status_code <= 299)
    /\ r.status_code # 404
    /\ r.status_code < 500
    /\ r.body = "inactive"

RefreshFailed(r) == r.reply \in {"post_error", "no_access_token", "no_refresh_token"}

\* C7: handling an 'Inactive token' response whose refresh succeeds makes
\* one refresh_token call and sends the request once more, with the
\* Authorization header of the new token.
C7_RefreshThenReissue ==
    [][ (spc = "sent" /\ SignalsInactive(lastResp') /\ lastResp'.reply = "ok")
        => /\ nRefresh' = nRefresh + 1
           /\ nSent' = nSent + 1
           /\ spc' = "sent"
           /\ TOKEN' # TOKEN
           /\ API_HEADER'.Authorization = Bearer(TOKEN')
           /\ reqAuth' = Bearer(TOKEN') ]_vars

\* C7 witness: the request sent again after one successful refresh.
C7_Witness ==
    /\ spc = "sent"
    /\ nSent = 2
    /\ nRefresh = 1
    /\ SignalsInactive(lastResp)
    /\ lastResp.reply = "ok"
    /\ TOKEN = 1
    /\ reqAuth = Bearer(1)

C9_SuccessNoError ==
    lastResp.status_code >= 200 /\ lastResp.status_code <= 299 =>
        /\ status_solved
        /\ ~is_error
        /\ content = IF to_json THEN Json(lastResp.body) ELSE Raw(lastResp.body)

\* C9 amended: after a response with a status in 200..299 the call is
\* solved; it is without error, with the content decoded as requested,
\* unless to_json is set and the body is no JSON: then is_error is set and
\* the content is the empty dict.
C9_SuccessUnlessUndecodable ==
    lastResp.status_code >= 200 /\ lastResp.status_code <= 299 =>
        /\ status_solved
        /\ spc # "sent"
        /\ IF to_json /\ lastResp.body = "garbage"
           THEN is_error /\ content = EmptyContent
           ELSE /\ ~is_error
                /\ content = IF to_json THEN Json(lastResp.body)
                             ELSE Raw(lastResp.body)

\* C9 witness: a status 299 answered with raw content, and one answered
\* with JSON (two states; either is a witness).
C9_Witness ==
    /\ lastResp.status_code = 299
    /\ status_solved
    /\ ~is_error
    /\ content \in {Raw("garbage"), Json("object")}

\* C10 as stated: a response outside 200..299 that is a hard failure, or
\* whose body decodes and does not say 'Inactive token', is solved with
\* error and without a refresh; a refresh is made for 'Inactive token'
\* alone.
C10_OtherErrorsTerminal ==
    /\ (/\ lastResp.status_code # None
        /\ ~(200 <= lastResp.status_code /\ lastResp.status_code <= 299)
        /\ \/ lastResp.status_code = 404
           \/ lastResp.status_code >= 500
           \/ lastResp.body \in {"object", "error", "array"}
        => /\ status_solved
           /\ is_error
           /\ lastResp.reply = "none"
           /\ spc # "sent")
    /\ (lastResp.reply # "none" => lastResp.body = "inactive")

\* the last response handled had a body that response.json() was asked to
\* decode and could not (session.py:287, 298)
DecodeFailed(r, tj) ==
    /\ r.status_code # None
    /\ r.body = "garbage"
    /\ \/ (200 <= r.status_code /\ r.status_code <= 299 /\ tj)
       \/ (/\ ~(200 <= r.status_code /\ r.status_code <= 299)
           /\ r.status_code # 404
           /\ r.status_code < 500)

\* C11 as stated: after a response whose body could not be decoded as JSON
\* the call has is_error set and the resolve loop sends no further request.
C11_UndecodableNotRetried ==
    DecodeFailed(lastResp, to_json) =>
        /\ is_error
        /\ spc # "sent"

(***************************************************************************)
(* Claims about download_dataset.                                          *)
(***************************************************************************)

\* download_dataset has ended
DlEnded == dpc \in {"returned", "raised"}

\* the fetch call ended without an error: the request was solved without
\* error and the file was written
FetchFine(f) == f.done /\ ~f.solved_error /\ f.exc = "none"

\* C12: once the status calls have reported PENDING, PENDING, SUCCESS
\* there have been exactly two pending passes and three status calls and
\* the fetch has been called exactly once, with no status call after it;
\* download_dataset then ends without error, provided its fetch does.
C12_TwoPendingThenFetch ==
    lastState = "SUCCESS" /\ nPending = 2 =>
        /\ nPolls = 3
        /\ nPollRefresh = 2
        /\ d_retries = 2
        /\ nFetch = 1
        /\ dpc \in {"fetch", "returned", "raised"}
        /\ ~d_is_error
        /\ FetchFine(fetched) =>
              dpc = "returned" /\ d_out = "success"
        /\ dpc = "returned" => d_out = "success"
        /\ dpc = "raised" => fetched.done /\ ~FetchFine(fetched)

\* C12 witness: PENDING, PENDING, SUCCESS, then the fetch, and the download
\* has ended in success.
C12_Witness ==
    /\ lastState = "SUCCESS"
    /\ nPending = 2
    /\ nPolls = 3
    /\ nFetch = 1
    /\ FetchFine(fetched)
    /\ dpc = "returned"
    /\ d_out = "success"

C14_ServerFailureAborts ==
    lastState \in {"ERROR", "FAILURE"} =>
        /\ DlEnded
        /\ d_is_error
        /\ d_log = [kind |-> "request failed",
                    reason |-> <<"task_result", lastState>>]
        /\ d_out = IF exception_on_error THEN "Py4LexisException"
                   ELSE "failed"
        /\ nPolls = nPending + 1
        /\ nFetch = 0

\* C14 witness: FAILURE reported by the second status call.
C14_Witness ==
    /\ lastState = "FAILURE"
    /\ nPending = 1
    /\ nPolls = 2
    /\ dpc = "returned"
    /\ d_out = "failed"

\* C15: when the submit call fails or its response lacks the identifier,
\* download_dataset ends with an exception and sends neither a status
\* request nor a fetch request.
C15_SubmitFailureTerminal ==
    submitted.result # "none" /\ submitted.result # "id" =>
        /\ dpc = "raised"
        /\ d_out \in {"Py4LexisException", "TypeError"}
        /\ down_request = None
        /\ nPolls = 0
        /\ nFetch = 0

\* C15 witness: a solved submit response without the identifier, with
\* exception_on_error unset.
C15_Witness ==
    /\ submitted.result # "none"
    /\ submitted.status_code = 200
    /\ submitted.body = "object"
    /\ submitted.result = "None"
    /\ ~exception_on_error
    /\ dpc = "raised"
    /\ nPolls = 0

\* C16 as stated: a submit response with a status in 200..299 that holds
\* the identifier under request_id or under requestId yields the
\* identifier as the request id of the download.
C16_EitherWireName ==
    /\ submitted.result # "none"
    /\ 200 <= submitted.status_code /\ submitted.status_code <= 299
    /\ HasRequestIdEither(submitted.body)
    => /\ submitted.result = "id"
       /\ down_request = 1

\* C17: when the fetch response has no content-length header and the
\* destination file is opened, exactly one write call is made on it and the
\* progress callback is not called.
C17_NoLengthSingleWrite ==
    fetched.done /\ ~fetched.has_length /\ f_opened =>
        /\ nWrites = 1
        /\ nProgress = 0

\* C17 witness: a fetch without content-length, with a progress callback
\* given, written and ended in success.
C17_Witness ==
    /\ fetched.done
    /\ ~fetched.has_length
    /\ FetchFine(fetched)
    /\ ~suppress_print
    /\ f_opened
    /\ nWrites = 1
    /\ d_out = "success"

\* C18 as stated, for download_dataset: an error ends it with
\* Py4LexisException when exception_on_error is set, and with a return
\* (no exception) when it is unset.
C18_RaisePolicy ==
    /\ dpc = "raised" => exception_on_error /\ d_out = "Py4LexisException"
    /\ dpc = "returned" /\ d_is_error => ~exception_on_error

(***************************************************************************)
(* Claims about the two uploaders                                          *)
(***************************************************************************)
\* C19: given the same server responses, the Uploader and the AsyncUploader
\* are at every step at the same call (create-resource, chunk-transmit,
\* offset-query) with the same request, hold the same url, offset, stop
\* position and retry count, and end the same way: both completed, or both
\* raised the same kind of error from the same place.
C19_SameStateMachine ==
    /\ au.pc = upc
    /\ au.url = url
    /\ au.offset = offset
    /\ au.stop_at = stop_at
    /\ au.retried = retried
    /\ au.request = request
    /\ au.raised.type = raised.type
    /\ au.raised.origin = raised.origin

\* both uploaders completed an upload in which a chunk was sent again after
\* an offset query
C19_Witness ==
    /\ upc = "returned"
    /\ au.pc = "returned"
    /\ lastQuery # None
    /\ nChunks >= 2

(***************************************************************************)
(* Claims about DirectoryTree                                              *)
(***************************************************************************)
RECURSIVE PathsOf(_, _)
\* the paths of an item of the listing and of everything below it
PathsOf(item, path) ==
    {path} \cup UNION { PathsOf(item.contents[i], Append(path, i)) :
                            i \in 1..Len(item.contents) }

\* q lies strictly below p
Below(p, q) == Len(p) < Len(q) /\ SubSeq(q, 1, Len(p)) = p

\* p and q are children of one directory, p listed before q
EarlierSibling(p, q) ==
    /\ Len(p) >= 1
    /\ Len(p) = Len(q)
    /\ SubSeq(p, 1, Len(p) - 1) = SubSeq(q, 1, Len(q) - 1)
    /\ p[Len(p)] < q[Len(q)]

\* C20: make_tree yields the nodes in depth-first pre-order: the root first
\* (depth 0, no parent); every node once, and after its directory; children
\* of one directory in listing order; everything below a child, and the
\* child itself, before the child's next sibling; and in the end every item
\* of the listing.
C20_PreOrder ==
    LET n == Len(yielded)
        at(i) == yielded[i].path
    IN  /\ n >= 1 => /\ at(1) = <<>>
                     /\ ~yielded[1].has_parent
                     /\ yielded[1].depth = 0
        /\ \A i, j \in 1..n :
              /\ i # j => at(i) # at(j)
              /\ Below(at(i), at(j)) => i < j
              /\ EarlierSibling(at(i), at(j)) => i < j
        /\ \A j \in 1..n :
              /\ at(j) \in PathsOf(tree_content, <<>>)
              /\ at(j) # <<>> =>
                    \E i \in 1..(j - 1) :
                        /\ at(i) = SubSeq(at(j), 1, Len(at(j)) - 1)
                        /\ yielded[i].dir
              /\ \A p \in PathsOf(tree_content, <<>>) :
                    (\E s \in PathsOf(tree_content, <<>>) :
                         /\ EarlierSibling(s, at(j))
                         /\ (p = s \/ Below(s, p)))
                    => \E i \in 1..(j - 1) : at(i) = p
        /\ tpc = "done" =>
              { at(i) : i \in 1..n } = PathsOf(tree_content, <<>>)

\* the listing was walked to its end, and it has a directory with a
\* directory in it that holds an item, followed by a sibling
C20_Witness ==
    /\ tpc = "done"
    /\ \E i, j \in 1..Len(yielded) :
          /\ yielded[i].path = <<1, 1, 1>>
          /\ yielded[j].path = <<2>>
          /\ i < j

RECURSIVE FilesOf(_, _)
\* the paths of the file descriptors at and below a descriptor
FilesOf(item, path) ==
    (IF item.type = "directory" THEN {} ELSE {path})
    \cup UNION { FilesOf(item.contents[i], Append(path, i)) :
                     i \in 1..Len(item.contents) }

\* C21: in the tabular form a directory node gives no row (None) and a
\* file node gives a row; once the whole listing is walked the number of
\* rows is the number of file descriptors of the nested listing.
C21_RowsAreFiles ==
    /\ Len(rows) = Len(yielded)
    /\ \A i \in 1..Len(rows) : rows[i].none <=> yielded[i].dir
    /\ tpc = "done" =>
          Cardinality({ i \in 1..Len(rows) : ~rows[i].none })
              = Cardinality(FilesOf(tree_content, <<>>))

\* a listing with files at two depths and two directories was walked to
\* its end
C21_Witness ==
    /\ tpc = "done"
    /\ Cardinality({ i \in 1..Len(rows) : ~rows[i].none }) = 2
    /\ Cardinality({ i \in 1..Len(rows) : rows[i].none }) = 3
    /\ \E i, j \in 1..Len(yielded) :
          /\ ~yielded[i].dir /\ ~yielded[j].dir
          /\ yielded[i].depth # yielded[j].depth

RECURSIVE AncestorNames(_, _, _)
\* the names of the ancestors of a node, the root's first
AncestorNames(has, parent, items) ==
    IF ~has THEN <<>>
    ELSE LET p == NodeAt(parent, items)
         IN  AncestorNames(p.has_parent, p.parent, items) \o <<p.name>>

\* C22: the path of the row of every file node is made of the names of all
\* its ancestors, from the root to its directory.
C22_PathIsAncestorNames ==
    \A i \in 1..Len(rows) :
        ~rows[i].none =>
            rows[i].path = AncestorNames(yielded[i].has_parent,
                                         yielded[i].parent, tree_items)

\* the prefix segment that stands for an ancestor
SegmentFor(ancestor) ==
    Literal(IF ancestor.is_last THEN "    " ELSE "|   ")

RECURSIVE PrefixSegments(_, _, _, _)
\* one segment for each ancestor, the outermost first; the root's is left
\* out unless with_root
PrefixSegments(has, parent, items, with_root) ==
    IF ~has THEN <<>>
    ELSE LET p == NodeAt(parent, items)
         IN  PrefixSegments(p.has_parent, p.parent, items, with_root)
             \o (IF p.has_parent \/ with_root THEN <<SegmentFor(p)>>
                 ELSE <<>>)

\* the line of a node, given its prefix segments
LineWith(node, segments) ==
    IF ~node.has_parent THEN <<node.name>>
    ELSE segments
         \o <<[node.name EXCEPT
                 !.glyph = IF node.is_last THEN "+--" ELSE "|--"]>>

\* C23 as stated: the root renders as its bare name, and every other node
\* as branch glyph and name preceded by one prefix segment for each of its
\* ancestors, the root among them, blank for a last sibling and a vertical
\* bar otherwise, the outermost first.
C23_SegmentPerAncestor ==
    \A i \in 1..Len(printed) :
        printed[i] = LineWith(yielded[i],
                              PrefixSegments(yielded[i].has_parent,
                                             yielded[i].parent, tree_items,
                                             TRUE))

\* C23 (amended): the root renders as its bare name, and every other node
\* as branch glyph and name preceded by one prefix segment for each of its
\* ancestors other than the root, blank for a last sibling and a vertical
\* bar otherwise, the outermost first.
C23_SegmentPerInnerAncestor ==
    \A i \in 1..Len(printed) :
        printed[i] = LineWith(yielded[i],
                              PrefixSegments(yielded[i].has_parent,
                                             yielded[i].parent, tree_items,
                                             FALSE))

\* a node three levels down was printed whose two inner ancestors differ:
\* the outer one is not a last sibling, the inner one is
C23_Witness ==
    \E i \in 1..Len(printed) :
        /\ yielded[i].depth = 3
        /\ Len(printed[i]) = 3
        /\ printed[i][1] = Literal("|   ")
        /\ printed[i][2] = Literal("    ")

RECURSIVE HasTruncated(_)
\* a directory descriptor at or below this one comes without "contents"
HasTruncated(item) ==
    \/ item.type = "directory" /\ ~item.has_contents
    \/ \E i \in 1..Len(item.contents) : HasTruncated(item.contents[i])

\* the field a node has for a key: the placeholder when the descriptor
\* lacks the key, its value otherwise
FieldOrPlaceholder(key, node, placeholder) ==
    IF key \in lacking THEN Literal(placeholder) ELSE Value(key, node.path)

\* C24: building and rendering the tree raises only when a directory
\* descriptor has no proper "contents"; a descriptor that lacks name, size,
\* checksum or create_time gets the literal placeholder in that field, in
\* the node and in its row, and every node taken has its line and its row.
C24_PlaceholdersNotErrors ==
    /\ tpc = "raised" => HasTruncated(tree_content)
    /\ Len(printed) = Len(yielded)
    /\ Len(rows) = Len(yielded)
    /\ \A i \in 1..Len(yielded) :
          LET n == yielded[i]
          IN  IF n.dir
              THEN n.name = (IF "name" \in lacking
                             THEN Literal("UKNOWN_dir/")
                             ELSE [Value("name", n.path) EXCEPT !.slash = TRUE])
              ELSE /\ n.name = FieldOrPlaceholder("name", n, "UKNOWN name")
                   /\ n.size = FieldOrPlaceholder("size", n, "UKNOWN size")
                   /\ n.checksum =
                          FieldOrPlaceholder("checksum", n, "UKNOWN Checksum")
                   /\ n.create_time =
                          FieldOrPlaceholder("create_time", n,
                                             "UKNOWN Create Time")
                   /\ rows[i].name = n.name
                   /\ rows[i].size = n.size
                   /\ rows[i].checksum = n.checksum
                   /\ rows[i].create_time = n.create_time

\* a listing whose descriptors lack the checksum and the name was walked to
\* its end, and the row of a file two levels down has the placeholders
C24_Witness ==
    /\ tpc = "done"
    /\ lacking = {"checksum", "name"}
    /\ \E i \in 1..Len(rows) :
          /\ ~rows[i].none
          /\ yielded[i].depth = 2
          /\ rows[i].checksum = Literal("UKNOWN Checksum")
          /\ rows[i].name = Literal("UKNOWN name")

(***************************************************************************)
(* Claims about AirflowCLI                                                 *)
(***************************************************************************)
\* C25: with filter_by_workflow_state set to a valid state and no filter on
\* the run id, the table shown holds exactly the runs whose state equals
\* the filter, in the order they came.
C25_FilterByState ==
    (/\ apc = "shown"
     /\ filter_by_workflow_run_id = ""
     /\ filter_by_workflow_state \in ValidStates)
    => workflows_table =
           SelectSeq(workflow_runs,
                     LAMBDA r : r.state = filter_by_workflow_state)

C27_FailedRefreshStopsPolling ==
    lastRefresh = "false" =>
        /\ dpc \notin {"poll", "fetch"}
        /\ DlEnded => d_out # "success"

(***************************************************************************)
(* Claims about the order and the end of the uploader's calls              *)
(***************************************************************************)
\* C28: a chunk transmission that is not the first is sent only when the
\* outcome of the one before is known and the offset has been assigned
\* from a server response to it: either that transmission was accepted and
\* the offset is its upload-offset header, or it failed and the offset is
\* what the offset query just answered.  The chunk is sent from that
\* offset.
C28_TransmissionsSequential ==
    [][(nTx' = nTx + 1 /\ nTx >= 1) =>
          /\ upc # "perform"
          /\ \/ /\ upc = "loop"
                /\ fresh
                /\ offset = request.hdr
                /\ request'.offset = offset
             \/ /\ upc = "get_offset"
                /\ lastQuery' # None
                /\ offset' = lastQuery'
                /\ request'.offset = offset']_vars

\* the second chunk is under way as the third transmission at least:
\* offsets came both from an upload-offset header and from an offset query
C28_Witness ==
    /\ upc = "perform"
    /\ nTx >= 3
    /\ nChunks = 2
    /\ lastQuery # None
    /\ okLast # None

\* upload() was left by the error of a chunk whose retries are used up
BudgetExceeded ==
    upc = "raised" /\ raised.origin \in {"perform", "get_offset"}

\* C29 as stated: the error raised when the retries of a chunk are used up
\* is the error of the first transmission of that chunk.
C29_OriginalFailureRaised ==
    BudgetExceeded => raised.origin = "perform" /\ raised.attempt = 1

\* C29 (amended): the error raised when the retries of a chunk are used up
\* is the error of the last thing that failed: the last transmission of the
\* chunk, or the offset query of the last retry when that query failed.
C29_LatestFailureRaised ==
    BudgetExceeded =>
        /\ retried >= retries
        /\ raised.origin = "perform" =>
              /\ raised.attempt = txInChunk
              /\ raised.type = "TusUploadFailed"
              /\ request.status_code = None \/ ~VerifyUpload(request.status_code)
        /\ raised.origin = "get_offset" =>
              /\ raised.attempt = retries
              /\ raised.type = "TusCommunicationError"
              /\ qFailInChunk >= 1
              /\ ~requeried

\* the retries of a chunk were used up by a transmission that was sent
\* again and failed again
C29_Witness ==
    /\ BudgetExceeded
    /\ raised.origin = "perform"
    /\ raised.attempt = 3
    /\ retried = 2

(***************************************************************************)
(* The uploader with no bound on the chunks it may send.  The counts of    *)
(* the observation are started afresh when they reach their bound: they    *)
(* watch the uploader and are no part of it.  Every step that can be taken *)
(* is taken in the end: the calls are blocking and the server answers.     *)
(***************************************************************************)
ObserveAfresh ==
    /\ upc = "loop"
    /\ nChunks = MaxChunks
    /\ nChunks' = 0
    /\ nTx' = 0
    /\ UNCHANGED <<seAll, dlAll, trAll, afAll, wfAll, au, upVars, nCreate, createResp,
                   txInChunk, okPrev, okLast, lastQuery, requeried,
                   qFailInChunk, fresh>>

NextUploaderLive ==
    \/ NextUploader
    \/ ObserveAfresh

SpecUploaderLive ==
    InitUploaderSpec /\ [][NextUploaderLive]_vars /\ WF_vars(NextUploaderLive)

\* C30: whatever the server answers, upload() ends in the end: it returns
\* or an error leaves it.
C30_UploadEnds == <>(upc \in {"returned", "raised"})

RECURSIVE Descriptors(_)
\* the number of descriptors of a listing, those of nested listings counted
Descriptors(listing) ==
    IF Len(listing) = 0 THEN 0
    ELSE 1 + Descriptors(listing[1].contents) + Descriptors(Tail(listing))

\* C32: the nodes make_tree yields have exactly one root, the first, with no
\* parent and depth 0; every other node's depth is the depth of its parent
\* plus one; and a listing walked to its end has given one node for each of
\* its descriptors and one for the root.
C32_OneRootDepthsAndCount ==
    LET n == Len(yielded)
    IN  /\ \A i \in 1..n :
              IF i = 1
              THEN ~yielded[i].has_parent /\ yielded[i].depth = 0
              ELSE /\ yielded[i].has_parent
                   /\ \E j \in 1..(i - 1) :
                         /\ yielded[j].path = yielded[i].parent
                         /\ yielded[i].depth = yielded[j].depth + 1
        /\ tpc \in {"iter", "done"} => n <= 1 + Descriptors(tree_content.contents)
        /\ tpc = "done" => n = 1 + Descriptors(tree_content.contents)

\* a listing of four descriptors nested three deep was walked to its end
C32_Witness ==
    /\ tpc = "done"
    /\ Len(yielded) = 5
    /\ \E i \in 1..Len(yielded) : yielded[i].depth = 3
    /\ \E i \in 1..Len(yielded) : yielded[i].depth = 1 /\ ~yielded[i].dir

RECURSIVE ItemAt(_, _)
\* the descriptor at a path below an item of the listing
ItemAt(item, path) ==
    IF Len(path) = 0 THEN item
    ELSE ItemAt(item.contents[path[1]], Tail(path))

\* C33: a child node has is_last exactly when it is the child at the last
\* position of its directory's listing; so, once the listing is walked, every
\* directory with a non-empty contents list has exactly one child node with
\* is_last, and all its other children have it false.
C33_LastChildOnly ==
    LET n == Len(yielded)
        children(i) == { j \in 1..n : /\ yielded[j].has_parent
                                      /\ yielded[j].parent = yielded[i].path }
    IN  /\ \A j \in 2..n :
              LET p == yielded[j].path
              IN  yielded[j].is_last <=>
                      p[Len(p)] = Len(ItemAt(tree_content, yielded[j].parent).contents)
        /\ tpc = "done" =>
              \A i \in 1..n :
                  Len(ItemAt(tree_content, yielded[i].path).contents) > 0 =>
                      /\ Cardinality({ j \in children(i) : yielded[j].is_last }) = 1
                      /\ Cardinality(children(i)) =
                             Len(ItemAt(tree_content, yielded[i].path).contents)

\* a walked listing with a directory of three children, and one of a single
\* child, in it
C33_Witness ==
    /\ tpc = "done"
    /\ \E i, j \in 1..Len(yielded) :
          /\ yielded[i].path = <<3>> /\ yielded[i].is_last
          /\ yielded[j].path = <<1, 1>> /\ yielded[j].is_last
    /\ ~yielded[2].is_last

\* C34: a chunk response that signals an inactive credential, as
\* handle_request_status reads it (neither 2xx nor 404 nor 5xx, with the
\* body "Inactive token"), makes the uploader refresh the credential, and is
\* not counted as a failed attempt of the chunk.
C34_ChunkThroughExecutor ==
    [][(/\ upc = "perform"
        /\ request'.response_content = "inactive"
        /\ NeedsRefresh(request'.status_code, request'.response_content))
       => (/\ nRefresh' = nRefresh + 1
           /\ retried' = retried
           /\ upc' # "raised")]_vars

\* C35: download_dataset ends in its success outcome only if its fetch ended
\* without error: the fetch request was solved without error and the
\* destination file was written without an exception.
C35_SuccessOnlyAfterFineFetch ==
    d_out = "success" => FetchFine(fetched)

\* C36: the destination file is opened and written only when the fetch
\* request was solved without error; a fetch solved with error leaves it
\* alone.
C36_ErrorLeavesDestination ==
    fetched.done /\ fetched.solved_error => ~f_opened /\ nWrites = 0

\* C37: when a status call is solved with error, download_dataset ends as a
\* reported failure (Py4LexisException with exception_on_error, a failed
\* return without), having made no fetch, and with no other exception.
C37_PollErrorIsReportedFailure ==
    lastState = "error" =>
        /\ dpc \in {"returned", "raised"}
        /\ d_out \in {"failed", "Py4LexisException"}
        /\ nFetch = 0

(***************************************************************************)
(* Claims about the session's credential and execute_workflow              *)
(***************************************************************************)
\* C38: check_token does nothing for an access token that is still valid
\* (less time has passed than its expiration); it calls refresh_token
\* exactly when the access token has expired and the refresh token has not;
\* and it reports or raises the expiry only when both have expired.
C38_CheckTokenByAge ==
    checked.done =>
        LET valid == checked.elapsed < token_expiration
            refreshable == /\ checked.elapsed >= token_expiration
                           /\ checked.elapsed < refresh_expiration
        IN  /\ valid => checked.did = "nothing"
            /\ checked.did = "refresh" <=> refreshable
            /\ checked.did \in {"raise", "print"} =>
                  /\ checked.elapsed >= token_expiration
                  /\ checked.elapsed >= refresh_expiration

\* C39: after every step the Authorization of API_HEADER is "Bearer " and
\* the session's TOKEN, and a refresh_token call that fails leaves TOKEN,
\* REFRESH_TOKEN and API_HEADER as they were.
C39_CredentialConsistent ==
    [][/\ API_HEADER'.Authorization = Bearer(TOKEN')
       /\ (nRefresh' = nRefresh + 1 /\ lastResp'.reply # "ok") =>
              UNCHANGED <<TOKEN, REFRESH_TOKEN, API_HEADER>>]_vars

\* C40: every post of execute_workflow carries in conf.access_token the
\* token the session holds when the post is sent.
C40_PostCarriesCurrentToken ==
    w_sends > 0 => posted.access_token = posted.TOKEN

====
